---- MODULE Spec2Model ----
(***************************************************************************)
(* A model of the injury-intelligence pipeline of NCAAProjectCH            *)
(* (src/injury_scraper.py, src/star_players.py): the disk cache, the news  *)
(* fetcher, the extraction/attribution passes and the impact aggregator.   *)
(*                                                                         *)
(* Conventions                                                             *)
(*   - a Python str is a sequence of one-character strings;                *)
(*   - a Python dict is a sequence of [key, val] pairs in insertion order;  *)
(*   - a datetime is an integer number of minutes;                         *)
(*   - a float that the code rounds to 2 places is an integer number of    *)
(*     hundredths (every product the code forms is an exact multiple of    *)
(*     a thousandth, so the fixed-point arithmetic is exact).              *)
(***************************************************************************)
EXTENDS Integers, Sequences, FiniteSets, TLC

VARIABLES
    now,        \* the wall clock, datetime.now(), in minutes
    file,       \* SpecCache: the one cache entry's file: [exists, text]
    writer,     \* SpecCache: per request thread, its position inside InjuryCache.set
    got,        \* SpecCache: the InjuryCache.get that has just returned, if any
    sets,       \* SpecCache: the number of InjuryCache.set calls begun
    stored,     \* SpecCache: history, the stamped payloads whose set has finished
    lastDone,   \* SpecCache: history, the payload of the set that finished last
    dirty,      \* SpecCache: history, some set overlapped the sets since the last lone open
    injuries,   \* SpecImpact: the record list handed to _compute_team_impact
    impact,     \* SpecImpact: what _compute_team_impact returned for it
    disk,       \* SpecPipeline, SpecFetch: the cache directory, the file of each identifier
    run,        \* SpecPipeline, SpecFetch: the last handler run, as the caller and its collaborators saw it
    calls,      \* SpecPipeline, SpecFetch: the number of requests handled
    call,       \* SpecTeamMatch, SpecStars: the function called last and its arguments
    ret,        \* SpecTeamMatch, SpecStars: what that call returned or raised
    app,        \* SpecApp: the Flask process, its key variables and its injury_analyzer
    response    \* SpecApp: the HTTP response to the last request

cacheVars == <<file, writer, got, sets, stored, lastDone, dirty>>
impactVars == <<injuries, impact>>
pipeVars == <<disk, run, calls>>
fnVars == <<call, ret>>
appVars == <<app, response>>
vars ==
    <<now, file, writer, got, sets, stored, lastDone, dirty, injuries, impact, disk, run, calls,
      call, ret, app, response>>

(***************************************************************************)
(* Generic helpers.                                                        *)
(***************************************************************************)
Max(a, b) == IF a >= b THEN a ELSE b

Range(s) == {s[i] : i \in 1..Len(s)}

KV(key, val) == [key |-> key, val |-> val]

\* dict.get(key, default)
DictHas(d, key) == \E i \in 1..Len(d) : d[i].key = key

DictGet(d, key, default) ==
    IF DictHas(d, key)
    THEN d[CHOOSE i \in 1..Len(d) : d[i].key = key].val
    ELSE default

\* d[key] = val: an existing key keeps its place, a new key goes last
DictSet(d, key, val) ==
    IF DictHas(d, key)
    THEN [i \in 1..Len(d) |-> IF d[i].key = key THEN [key |-> key, val |-> val] ELSE d[i]]
    ELSE Append(d, [key |-> key, val |-> val])

(***************************************************************************)
(* The clock.  The instants of interest are those around the TTLs the      *)
(* program uses (multiples of 60 minutes) and the minute after each.        *)
(***************************************************************************)
MaxClock == 61

ClockValues == {t \in 0..MaxClock : t % 60 <= 1}

\* datetime.fromisoformat('2000-01-01') seen from a clock that starts at 0:
\* a timestamp older than any max_age a caller passes
Year2000 == 0 - 13000000

isoformat(t) == [iso |-> t]

\* datetime.fromisoformat(s): ValueError on anything that is not an ISO string
fromisoformat(v) ==
    IF DOMAIN v = {"iso"} THEN [ok |-> TRUE, t |-> v.iso] ELSE [ok |-> FALSE, t |-> 0]

(***************************************************************************)
(* JSON text on disk, at the granularity of one token per dict field.      *)
(***************************************************************************)
TokOpen == [k |-> "{"]
TokClose == [k |-> "}"]
TokNul == [k |-> "nul"]
TokField(key, val) == [k |-> "field", key |-> key, val |-> val]

\* json.dump(data, f) of a dict
json_dump(d) ==
    <<TokOpen>> \o [i \in 1..Len(d) |-> TokField(d[i].key, d[i].val)] \o <<TokClose>>

RECURSIVE FieldsToDict(_, _)
FieldsToDict(text, acc) ==
    IF text = <<>> THEN acc
    ELSE FieldsToDict(Tail(text), DictSet(acc, Head(text).key, Head(text).val))

\* json.load(f): JSONDecodeError unless the text is one complete object
json_load(text) ==
    IF /\ Len(text) >= 2
       /\ text[1] = TokOpen
       /\ text[Len(text)] = TokClose
       /\ \A i \in 2..(Len(text) - 1) : text[i].k = "field"
    THEN [ok |-> TRUE, data |-> FieldsToDict(SubSeq(text, 2, Len(text) - 1), <<>>)]
    ELSE [ok |-> FALSE, data |-> <<>>]

\* write(2) of chunk at offset pos: bytes past the old end of the file are
\* added, a gap between the old end and pos reads as NUL bytes
WriteAt(text, pos, chunk) ==
    [i \in 1..Max(Len(text), pos + Len(chunk)) |->
        IF i > pos /\ i <= pos + Len(chunk) THEN chunk[i - pos]
        ELSE IF i <= Len(text) THEN text[i]
        ELSE TokNul]

(***************************************************************************)
(* InjuryCache                                                             *)
(***************************************************************************)
NoFile == [exists |-> FALSE, text |-> <<>>]

Miss == [hit |-> FALSE, data |-> <<>>]

InjuryCache_get_expired_ge(age, max_age_minutes) == age >= max_age_minutes

\* line 44: datetime.now() - cached_at > timedelta(minutes=max_age_minutes)
InjuryCache_get_expired(age, max_age_minutes) == age > max_age_minutes

\* InjuryCache.get(identifier, max_age_minutes) on the entry's file f at time t
InjuryCache_get(f, max_age_minutes, t) ==
    IF ~f.exists THEN Miss
    ELSE LET loaded == json_load(f.text) IN
         IF ~loaded.ok THEN Miss                      \* except json.JSONDecodeError
         ELSE LET parsed == fromisoformat(
                      DictGet(loaded.data, "_cached_at", isoformat(Year2000))) IN
              IF ~parsed.ok THEN Miss                 \* except ValueError
              ELSE IF InjuryCache_get_expired(t - parsed.t, max_age_minutes) THEN Miss
              ELSE [hit |-> TRUE, data |-> loaded.data]

InjuryCache_set_stamp_nothing(data, t) == data

\* line 51: data['_cached_at'] = datetime.now().isoformat()
InjuryCache_set_stamp(data, t) == DictSet(data, "_cached_at", isoformat(t))

\* InjuryCache.set run to completion by one thread alone: the file afterwards
InjuryCache_set(data, t) ==
    [exists |-> TRUE, text |-> json_dump(InjuryCache_set_stamp(data, t))]

(***************************************************************************)
(* Python values as the language model's JSON reply can hold them.         *)
(***************************************************************************)
PStr(s) == [ty |-> "str", v |-> s]
PInt(n) == [ty |-> "int", v |-> n]
PBool(b) == [ty |-> "bool", v |-> b]
PNone == [ty |-> "none", v |-> 0]
PList(l) == [ty |-> "list", v |-> l]
PDict(d) == [ty |-> "dict", v |-> d]

\* bool(x)
Truthy(x) ==
    CASE x.ty = "bool" -> x.v
      [] x.ty = "int" -> x.v # 0
      [] x.ty = "str" -> x.v # <<>>
      [] x.ty = "list" -> x.v # <<>>
      [] x.ty = "dict" -> x.v # <<>>
      [] OTHER -> FALSE

\* str(n) for n >= 0
Digit(d) ==
    CASE d = 0 -> "0" [] d = 1 -> "1" [] d = 2 -> "2" [] d = 3 -> "3" [] d = 4 -> "4"
      [] d = 5 -> "5" [] d = 6 -> "6" [] d = 7 -> "7" [] d = 8 -> "8" [] OTHER -> "9"

RECURSIVE StrOfNat(_)
StrOfNat(n) == IF n < 10 THEN <<Digit(n)>> ELSE StrOfNat(n \div 10) \o <<Digit(n % 10)>>

\* the concatenation of a sequence of sequences
RECURSIVE Concat(_)
Concat(ss) ==
    IF ss = <<>> THEN <<>>
    ELSE IF Len(ss) = 1 THEN ss[1]
    ELSE LET h == Len(ss) \div 2 IN
         Concat(SubSeq(ss, 1, h)) \o Concat(SubSeq(ss, h + 1, Len(ss)))

\* sep.join(parts)
Join(sep, parts) == Concat([i \in 1..Len(parts) |-> IF i = 1 THEN parts[i] ELSE sep \o parts[i]])

\* round(x, k) of the exact value num / den, in units of 10^-k when num / den
\* is in those units: to the nearest integer, a tie to the even one
RoundHalfEven(num, den) ==
    LET q == num \div den
        r == num % den
    IN IF 2 * r < den THEN q
       ELSE IF 2 * r > den THEN q + 1
       ELSE IF q % 2 = 0 THEN q ELSE q + 1

(***************************************************************************)
(* Python str methods, on sequences of characters.                         *)
(***************************************************************************)
\* str.lower() of one character
LowerChar(c) ==
    CASE
         c = "A" -> "a" [] c = "B" -> "b" [] c = "C" -> "c" [] c = "D" -> "d" [] c = "E" -> "e"
      [] c = "F" -> "f" [] c = "G" -> "g" [] c = "H" -> "h" [] c = "I" -> "i" [] c = "J" -> "j"
      [] c = "K" -> "k" [] c = "L" -> "l" [] c = "M" -> "m" [] c = "N" -> "n" [] c = "O" -> "o"
      [] c = "P" -> "p" [] c = "Q" -> "q" [] c = "R" -> "r" [] c = "S" -> "s" [] c = "T" -> "t"
      [] c = "U" -> "u" [] c = "V" -> "v" [] c = "W" -> "w" [] c = "X" -> "x" [] c = "Y" -> "y"
      [] c = "Z" -> "z"
      [] OTHER -> c

\* s.lower()
Lower(s) == [i \in 1..Len(s) |-> LowerChar(s[i])]

\* s.strip(), the whitespace here being the space
RECURSIVE LStrip(_)
LStrip(s) == IF s # <<>> /\ Head(s) = " " THEN LStrip(Tail(s)) ELSE s

RECURSIVE RStrip(_)
RStrip(s) == IF s # <<>> /\ s[Len(s)] = " " THEN RStrip(SubSeq(s, 1, Len(s) - 1)) ELSE s

Strip(s) == RStrip(LStrip(s))

\* s.startswith(prefix)
StartsWith(s, prefix) == Len(prefix) <= Len(s) /\ SubSeq(s, 1, Len(prefix)) = prefix

\* s.replace(old, new), old non-empty: left to right, without overlap
RECURSIVE Replace(_, _, _)
Replace(s, old, new) ==
    IF s = <<>> THEN <<>>
    ELSE IF StartsWith(s, old)
    THEN new \o Replace(SubSeq(s, Len(old) + 1, Len(s)), old, new)
    ELSE <<Head(s)>> \o Replace(Tail(s), old, new)

\* sub in s
Contains(s, sub) ==
    \/ sub = <<>>
    \/ \E i \in 1..(Len(s) - Len(sub) + 1) :
          s[i] = sub[1] /\ SubSeq(s, i, i + Len(sub) - 1) = sub

\* s.split(): the words between runs of spaces
RECURSIVE SplitAcc(_, _, _)
SplitAcc(s, word, words) ==
    IF s = <<>> THEN (IF word = <<>> THEN words ELSE Append(words, word))
    ELSE IF Head(s) = " "
    THEN SplitAcc(Tail(s), <<>>, IF word = <<>> THEN words ELSE Append(words, word))
    ELSE SplitAcc(Tail(s), Append(word, Head(s)), words)

Split(s) == SplitAcc(s, <<>>, <<>>)

(***************************************************************************)
(* star_players.py                                                         *)
(***************************************************************************)
\* STAR_PLAYERS, lines 15-111, in insertion order (position and note left out)
STAR_PLAYERS ==
    <<
      [player |-> <<"C", "o", "o", "p", "e", "r", " ", "F", "l", "a", "g", "g">>,
       team |-> <<"D", "u", "k", "e">>, tier |-> "superstar", impact |-> 10],
      [player |-> <<"D", "y", "l", "a", "n", " ", "H", "a", "r", "p", "e", "r">>,
       team |-> <<"R", "u", "t", "g", "e", "r", "s">>, tier |-> "superstar", impact |-> 10],
      [player |-> <<"A", "c", "e", " ", "B", "a", "i", "l", "e", "y">>,
       team |-> <<"R", "u", "t", "g", "e", "r", "s">>, tier |-> "superstar", impact |-> 10],
      [player |-> <<"K", "a", "s", "p", "a", "r", "a", "s", " ", "J", "a", "k", "u", "c", "i", "o", "n", "i", "s">>,
       team |-> <<"I", "l", "l", "i", "n", "o", "i", "s">>, tier |-> "superstar", impact |-> 10],
      [player |-> <<"V", "J", " ", "E", "d", "g", "e", "c", "o", "m", "b", "e">>,
       team |-> <<"B", "a", "y", "l", "o", "r">>, tier |-> "superstar", impact |-> 10],
      [player |-> <<"L", "i", "a", "m", " ", "M", "c", "N", "e", "e", "l", "e", "y">>,
       team |-> <<"C", "o", "n", "n", "e", "c", "t", "i", "c", "u", "t">>, tier |-> "superstar", impact |-> 10],
      [player |-> <<"M", "a", "r", "k", " ", "S", "e", "a", "r", "s">>,
       team |-> <<"A", "l", "a", "b", "a", "m", "a">>, tier |-> "star", impact |-> 9],
      [player |-> <<"J", "o", "h", "n", "i", " ", "B", "r", "o", "o", "m", "e">>,
       team |-> <<"A", "u", "b", "u", "r", "n">>, tier |-> "star", impact |-> 9],
      [player |-> <<"R", "J", " ", "D", "a", "v", "i", "s">>,
       team |-> <<"N", "o", "r", "t", "h", " ", "C", "a", "r", "o", "l", "i", "n", "a">>, tier |-> "star", impact |-> 9],
      [player |-> <<"O", "t", "e", "g", "a", " ", "O", "w", "e", "h">>,
       team |-> <<"M", "i", "c", "h", "i", "g", "a", "n">>, tier |-> "star", impact |-> 9],
      [player |-> <<"T", "r", "e", " ", "J", "o", "h", "n", "s", "o", "n">>,
       team |-> <<"T", "e", "x", "a", "s">>, tier |-> "star", impact |-> 9],
      [player |-> <<"C", "h", "a", "z", " ", "L", "a", "n", "i", "e", "r">>,
       team |-> <<"T", "e", "n", "n", "e", "s", "s", "e", "e">>, tier |-> "star", impact |-> 9],
      [player |-> <<"D", "a", "n", "n", "y", " ", "W", "o", "l", "f">>,
       team |-> <<"M", "i", "c", "h", "i", "g", "a", "n">>, tier |-> "star", impact |-> 9],
      [player |-> <<"J", "e", "r", "e", "m", "i", "a", "h", " ", "F", "e", "a", "r", "s">>,
       team |-> <<"O", "k", "l", "a", "h", "o", "m", "a">>, tier |-> "star", impact |-> 9],
      [player |-> <<"K", "o", "n", " ", "K", "n", "u", "e", "p", "p", "e", "l">>,
       team |-> <<"D", "u", "k", "e">>, tier |-> "star", impact |-> 9],
      [player |-> <<"N", "o", "l", "a", "n", " ", "T", "r", "a", "o", "r", "e">>,
       team |-> <<"C", "r", "e", "i", "g", "h", "t", "o", "n">>, tier |-> "star", impact |-> 9],
      [player |-> <<"Z", "u", "b", "y", " ", "E", "j", "i", "o", "f", "o", "r">>,
       team |-> <<"D", "u", "k", "e">>, tier |-> "star", impact |-> 9],
      [player |-> <<"A", "J", " ", "S", "t", "o", "r", "r">>,
       team |-> <<"K", "a", "n", "s", "a", "s">>, tier |-> "star", impact |-> 9],
      [player |-> <<"H", "u", "n", "t", "e", "r", " ", "D", "i", "c", "k", "i", "n", "s", "o", "n">>,
       team |-> <<"K", "a", "n", "s", "a", "s">>, tier |-> "star", impact |-> 9],
      [player |-> <<"D", "a", "r", "r", "y", "n", " ", "P", "e", "t", "e", "r", "s", "o", "n">>,
       team |-> <<"K", "a", "n", "s", "a", "s">>, tier |-> "star", impact |-> 9],
      [player |-> <<"E", "g", "o", "r", " ", "D", "e", "m", "i", "n">>,
       team |-> <<"B", "a", "y", "l", "o", "r">>, tier |-> "star", impact |-> 9],
      [player |-> <<"C", "o", "l", "l", "i", "n", " ", "M", "u", "r", "r", "a", "y", "-", "B", "o", "y", "l", "e", "s">>,
       team |-> <<"S", "o", "u", "t", "h", " ", "C", "a", "r", "o", "l", "i", "n", "a">>, tier |-> "star", impact |-> 9],
      [player |-> <<"J", "T", " ", "T", "o", "p", "p", "i", "n">>,
       team |-> <<"T", "e", "x", "a", "s", " ", "T", "e", "c", "h">>, tier |-> "key_star", impact |-> 9],
      [player |-> <<"T", "y", "r", "e", "s", "e", " ", "P", "r", "o", "c", "t", "o", "r">>,
       team |-> <<"D", "u", "k", "e">>, tier |-> "key_star", impact |-> 8],
      [player |-> <<"I", "a", "n", " ", "J", "a", "c", "k", "s", "o", "n">>,
       team |-> <<"N", "o", "r", "t", "h", " ", "C", "a", "r", "o", "l", "i", "n", "a">>, tier |-> "key_star", impact |-> 8],
      [player |-> <<"C", "a", "l", "e", "b", " ", "L", "o", "v", "e">>,
       team |-> <<"A", "r", "i", "z", "o", "n", "a">>, tier |-> "key_star", impact |-> 8],
      [player |-> <<"J", "a", "l", "e", "n", " ", "B", "r", "i", "d", "g", "e", "s">>,
       team |-> <<"H", "o", "u", "s", "t", "o", "n">>, tier |-> "key_star", impact |-> 8],
      [player |-> <<"E", "m", "a", "n", "u", "e", "l", " ", "S", "h", "a", "r", "p">>,
       team |-> <<"H", "o", "u", "s", "t", "o", "n">>, tier |-> "key_star", impact |-> 8],
      [player |-> <<"J", "'", "W", "a", "n", " ", "R", "o", "b", "e", "r", "t", "s">>,
       team |-> <<"H", "o", "u", "s", "t", "o", "n">>, tier |-> "key_star", impact |-> 8],
      [player |-> <<"L", ".", "J", ".", " ", "C", "r", "y", "e", "r">>,
       team |-> <<"H", "o", "u", "s", "t", "o", "n">>, tier |-> "key_star", impact |-> 8],
      [player |-> <<"T", "e", "r", "r", "e", "n", "c", "e", " ", "S", "h", "a", "n", "n", "o", "n", " ", "J", "r", ".">>,
       team |-> <<"I", "l", "l", "i", "n", "o", "i", "s">>, tier |-> "key_star", impact |-> 8],
      [player |-> <<"C", "u", "r", "t", "i", "s", " ", "J", "o", "n", "e", "s">>,
       team |-> <<"I", "o", "w", "a", " ", "S", "t", ".">>, tier |-> "key_star", impact |-> 8],
      [player |-> <<"T", "a", "m", "i", "n", " ", "L", "i", "p", "s", "e", "y">>,
       team |-> <<"I", "o", "w", "a", " ", "S", "t", ".">>, tier |-> "key_star", impact |-> 8],
      [player |-> <<"M", "i", "l", "a", "n", " ", "M", "o", "m", "c", "i", "l", "o", "v", "i", "c">>,
       team |-> <<"I", "o", "w", "a", " ", "S", "t", ".">>, tier |-> "key_star", impact |-> 8],
      [player |-> <<"B", "r", "a", "d", "e", "n", " ", "S", "m", "i", "t", "h">>,
       team |-> <<"P", "u", "r", "d", "u", "e">>, tier |-> "key_star", impact |-> 8],
      [player |-> <<"T", "r", "e", "y", " ", "K", "a", "u", "f", "m", "a", "n", "-", "R", "e", "n", "n">>,
       team |-> <<"P", "u", "r", "d", "u", "e">>, tier |-> "key_star", impact |-> 8],
      [player |-> <<"R", "y", "a", "n", " ", "N", "e", "m", "b", "h", "a", "r", "d">>,
       team |-> <<"G", "o", "n", "z", "a", "g", "a">>, tier |-> "key_star", impact |-> 8],
      [player |-> <<"G", "r", "a", "h", "a", "m", " ", "I", "k", "e">>,
       team |-> <<"G", "o", "n", "z", "a", "g", "a">>, tier |-> "key_star", impact |-> 8],
      [player |-> <<"A", "l", "e", "x", " ", "K", "a", "r", "a", "b", "a", "n">>,
       team |-> <<"C", "o", "n", "n", "e", "c", "t", "i", "c", "u", "t">>, tier |-> "key_star", impact |-> 8],
      [player |-> <<"A", "h", "m", "a", "d", " ", "N", "o", "w", "e", "l", "l">>,
       team |-> <<"F", "l", "o", "r", "i", "d", "a">>, tier |-> "key_star", impact |-> 8],
      [player |-> <<"W", "a", "l", "t", "e", "r", " ", "C", "l", "a", "y", "t", "o", "n", " ", "J", "r", ".">>,
       team |-> <<"F", "l", "o", "r", "i", "d", "a">>, tier |-> "key_star", impact |-> 8],
      [player |-> <<"J", "a", "y", "l", "i", "n", " ", "W", "i", "l", "l", "i", "a", "m", "s">>,
       team |-> <<"M", "i", "c", "h", "i", "g", "a", "n", " ", "S", "t", ".">>, tier |-> "key_star", impact |-> 8],
      [player |-> <<"J", "a", "s", "e", " ", "R", "i", "c", "h", "a", "r", "d", "s", "o", "n">>,
       team |-> <<"M", "i", "c", "h", "i", "g", "a", "n", " ", "S", "t", ".">>, tier |-> "key_star", impact |-> 8],
      [player |-> <<"D", "e", "r", "i", "k", " ", "Q", "u", "e", "e", "n">>,
       team |-> <<"M", "a", "r", "y", "l", "a", "n", "d">>, tier |-> "key_star", impact |-> 8],
      [player |-> <<"T", "a", "y", "l", "o", "r", " ", "H", "e", "n", "d", "r", "i", "c", "k", "s">>,
       team |-> <<"V", "a", "n", "d", "e", "r", "b", "i", "l", "t">>, tier |-> "key_star", impact |-> 8],
      [player |-> <<"T", "y", "l", "e", "r", " ", "K", "o", "l", "e", "k">>,
       team |-> <<"M", "a", "r", "q", "u", "e", "t", "t", "e">>, tier |-> "key_star", impact |-> 8],
      [player |-> <<"K", "a", "m", " ", "J", "o", "n", "e", "s">>,
       team |-> <<"M", "a", "r", "q", "u", "e", "t", "t", "e">>, tier |-> "key_star", impact |-> 8],
      [player |-> <<"D", "a", "l", "t", "o", "n", " ", "K", "n", "e", "c", "h", "t">>,
       team |-> <<"T", "e", "n", "n", "e", "s", "s", "e", "e">>, tier |-> "key_star", impact |-> 8],
      [player |-> <<"Z", "a", "k", "a", "i", " ", "Z", "e", "i", "g", "l", "e", "r">>,
       team |-> <<"T", "e", "n", "n", "e", "s", "s", "e", "e">>, tier |-> "key_star", impact |-> 8],
      [player |-> <<"J", ".", "P", ".", " ", "E", "s", "t", "r", "e", "l", "l", "a">>,
       team |-> <<"T", "e", "n", "n", "e", "s", "s", "e", "e">>, tier |-> "key_star", impact |-> 8],
      [player |-> <<"L", "a", "b", "a", "r", "o", "n", " ", "P", "h", "i", "l", "o", "n">>,
       team |-> <<"A", "l", "a", "b", "a", "m", "a">>, tier |-> "key_star", impact |-> 8],
      [player |-> <<"A", "d", "e", "n", " ", "H", "o", "l", "l", "o", "w", "a", "y">>,
       team |-> <<"A", "l", "a", "b", "a", "m", "a">>, tier |-> "key_star", impact |-> 8],
      [player |-> <<"C", "l", "i", "f", "f", " ", "O", "m", "o", "r", "u", "y", "i">>,
       team |-> <<"A", "l", "a", "b", "a", "m", "a">>, tier |-> "key_star", impact |-> 8],
      [player |-> <<"F", "l", "o", "r", "y", " ", "B", "i", "d", "u", "n", "g", "a">>,
       team |-> <<"A", "r", "k", "a", "n", "s", "a", "s">>, tier |-> "key_star", impact |-> 8],
      [player |-> <<"D", ".", "J", ".", " ", "W", "a", "g", "n", "e", "r">>,
       team |-> <<"A", "r", "k", "a", "n", "s", "a", "s">>, tier |-> "key_star", impact |-> 8],
      [player |-> <<"J", "u", "s", "t", "i", "n", " ", "E", "d", "w", "a", "r", "d", "s">>,
       team |-> <<"K", "e", "n", "t", "u", "c", "k", "y">>, tier |-> "key_star", impact |-> 8],
      [player |-> <<"O", "t", "i", "s", " ", "L", "i", "v", "i", "n", "g", "s", "t", "o", "n", " ", "I", "I">>,
       team |-> <<"K", "e", "n", "t", "u", "c", "k", "y">>, tier |-> "key_star", impact |-> 8],
      [player |-> <<"J", "a", "x", "s", "o", "n", " ", "R", "o", "b", "i", "n", "s", "o", "n">>,
       team |-> <<"K", "e", "n", "t", "u", "c", "k", "y">>, tier |-> "key_star", impact |-> 8],
      [player |-> <<"J", "a", "y", "l", "e", "n", " ", "C", "r", "o", "c", "k", "e", "r", "-", "J", "o", "h", "n", "s", "o", "n">>,
       team |-> <<"M", "i", "n", "n", "e", "s", "o", "t", "a">>, tier |-> "key_star", impact |-> 8],
      [player |-> <<"K", "a", "d", "a", "r", "y", " ", "R", "i", "c", "h", "m", "o", "n", "d">>,
       team |-> <<"S", "t", ".", " ", "J", "o", "h", "n", "'", "s">>, tier |-> "key_star", impact |-> 8],
      [player |-> <<"R", "J", " ", "L", "u", "i", "s", " ", "J", "r", ".">>,
       team |-> <<"S", "t", ".", " ", "J", "o", "h", "n", "'", "s">>, tier |-> "key_star", impact |-> 8],
      [player |-> <<"P", "o", "p", " ", "I", "s", "a", "a", "c", "s">>,
       team |-> <<"B", "a", "y", "l", "o", "r">>, tier |-> "key_star", impact |-> 8],
      [player |-> <<"C", "o", "d", "y", " ", "W", "i", "l", "l", "i", "a", "m", "s">>,
       team |-> <<"A", "r", "i", "z", "o", "n", "a">>, tier |-> "key_star", impact |-> 8],
      [player |-> <<"M", "a", "t", "a", "s", " ", "B", "u", "z", "e", "l", "i", "s">>,
       team |-> <<"W", "a", "k", "e", " ", "F", "o", "r", "e", "s", "t">>, tier |-> "key_star", impact |-> 8],
      [player |-> <<"I", "s", "a", "i", "a", "h", " ", "C", "o", "l", "l", "i", "e", "r">>,
       team |-> <<"U", "S", "C">>, tier |-> "key_star", impact |-> 8],
      [player |-> <<"B", "o", "o", "g", "i", "e", " ", "F", "l", "a", "n", "d">>,
       team |-> <<"A", "r", "k", "a", "n", "s", "a", "s">>, tier |-> "key_star", impact |-> 8],
      [player |-> <<"K", "a", "r", "t", "e", "r", " ", "K", "n", "o", "x">>,
       team |-> <<"A", "r", "k", "a", "n", "s", "a", "s">>, tier |-> "key_star", impact |-> 8],
      [player |-> <<"M", "a", "l", "i", "q", "u", "e", " ", "E", "w", "i", "n">>,
       team |-> <<"A", "r", "k", "a", "n", "s", "a", "s">>, tier |-> "key_star", impact |-> 7],
      [player |-> <<"J", "a", "s", "o", "n", " ", "S", "h", "e", "l", "d", "o", "n">>,
       team |-> <<"N", "e", "b", "r", "a", "s", "k", "a">>, tier |-> "key_star", impact |-> 8],
      [player |-> <<"B", "r", "i", "c", "e", " ", "W", "i", "l", "l", "i", "a", "m", "s">>,
       team |-> <<"N", "e", "b", "r", "a", "s", "k", "a">>, tier |-> "key_star", impact |-> 8],
      [player |-> <<"T", "o", "b", "e", " ", "A", "w", "a", "k", "a">>,
       team |-> <<"V", "a", "n", "d", "e", "r", "b", "i", "l", "t">>, tier |-> "key_star", impact |-> 8],
      [player |-> <<"J", "a", "s", "o", "n", " ", "E", "d", "w", "a", "r", "d", "s">>,
       team |-> <<"V", "a", "n", "d", "e", "r", "b", "i", "l", "t">>, tier |-> "key_star", impact |-> 8],
      [player |-> <<"J", "o", "h", "n", "e", "l", "l", " ", "D", "a", "v", "i", "s">>,
       team |-> <<"F", "l", "o", "r", "i", "d", "a">>, tier |-> "starter", impact |-> 7],
      [player |-> <<"S", "a", "m", " ", "R", "u", "b", "i", "n">>,
       team |-> <<"F", "l", "o", "r", "i", "d", "a">>, tier |-> "starter", impact |-> 7],
      [player |-> <<"J", "a", "l", "e", "n", " ", "W", "i", "l", "s", "o", "n">>,
       team |-> <<"K", "a", "n", "s", "a", "s">>, tier |-> "starter", impact |-> 7],
      [player |-> <<"K", "J", " ", "A", "d", "a", "m", "s", " ", "J", "r", ".">>,
       team |-> <<"K", "a", "n", "s", "a", "s">>, tier |-> "starter", impact |-> 7],
      [player |-> <<"D", "a", "j", "u", "a", "n", " ", "H", "a", "r", "r", "i", "s", " ", "J", "r", ".">>,
       team |-> <<"K", "a", "n", "s", "a", "s">>, tier |-> "starter", impact |-> 7],
      [player |-> <<"R", "e", "e", "d", " ", "S", "h", "e", "p", "p", "a", "r", "d">>,
       team |-> <<"H", "o", "u", "s", "t", "o", "n">>, tier |-> "starter", impact |-> 7],
      [player |-> <<"T", "e", "r", "r", "a", "n", "c", "e", " ", "A", "r", "c", "e", "n", "e", "a", "u", "x">>,
       team |-> <<"H", "o", "u", "s", "t", "o", "n">>, tier |-> "starter", impact |-> 7],
      [player |-> <<"D", "a", "w", "s", "o", "n", " ", "G", "a", "r", "c", "i", "a">>,
       team |-> <<"N", "o", "r", "t", "h", " ", "C", "a", "r", "o", "l", "i", "n", "a">>, tier |-> "starter", impact |-> 7],
      [player |-> <<"E", "l", "l", "i", "o", "t", " ", "C", "a", "d", "e", "a", "u">>,
       team |-> <<"N", "o", "r", "t", "h", " ", "C", "a", "r", "o", "l", "i", "n", "a">>, tier |-> "starter", impact |-> 7],
      [player |-> <<"J", "e", "r", "e", "m", "y", " ", "R", "o", "a", "c", "h">>,
       team |-> <<"B", "a", "y", "l", "o", "r">>, tier |-> "starter", impact |-> 7],
      [player |-> <<"J", "a", "l", "e", "n", " ", "D", "u", "r", "e", "n">>,
       team |-> <<"V", "i", "l", "l", "a", "n", "o", "v", "a">>, tier |-> "starter", impact |-> 7],
      [player |-> <<"C", "h", "r", "i", "s", " ", "C", "e", "n", "a", "c", " ", "J", "r", ".">>,
       team |-> <<"S", "a", "i", "n", "t", " ", "L", "o", "u", "i", "s">>, tier |-> "starter", impact |-> 7],
      [player |-> <<"R", "o", "b", "b", "i", "e", " ", "A", "v", "i", "l", "a">>,
       team |-> <<"S", "a", "i", "n", "t", " ", "L", "o", "u", "i", "s">>, tier |-> "starter", impact |-> 7],
      [player |-> <<"J", "o", "r", "d", "a", "n", " ", "P", "o", "p", "e">>,
       team |-> <<"T", "e", "x", "a", "s", " ", "T", "e", "c", "h">>, tier |-> "starter", impact |-> 7],
      [player |-> <<"D", "a", "r", "r", "i", "o", "n", " ", "W", "i", "l", "l", "i", "a", "m", "s">>,
       team |-> <<"T", "e", "x", "a", "s", " ", "T", "e", "c", "h">>, tier |-> "starter", impact |-> 7],
      [player |-> <<"C", "h", "a", "n", "c", "e", " ", "M", "c", "M", "i", "l", "l", "i", "a", "n">>,
       team |-> <<"T", "e", "x", "a", "s", " ", "T", "e", "c", "h">>, tier |-> "starter", impact |-> 7]
    >>

NoStar == [player |-> <<>>, team |-> <<>>, tier |-> "", impact |-> 0]

Found(star) == [raised |-> "", found |-> TRUE, star |-> star]
NotFound == [raised |-> "", found |-> FALSE, star |-> NoStar]
LookupRaised(exc) == [raised |-> exc, found |-> FALSE, star |-> NoStar]

StarEntryMatches_LastNameOnly(key, name_lower, words) ==
    \/ Lower(key) = name_lower
    \/ LET parts == Split(key) IN
       /\ Len(parts) >= 2
       /\ words # <<>>
       /\ Lower(parts[Len(parts)]) = Lower(words[Len(words)])

\* lines 122-128 for one entry: its key matches name_lower without regard to
\* case, or by last name and first initial; words is name_lower.split()
StarEntryMatches(key, name_lower, words) ==
    \/ Lower(key) = name_lower
    \/ LET parts == Split(key) IN
       /\ Len(parts) >= 2
       /\ words # <<>>
       /\ Lower(parts[Len(parts)]) = Lower(words[Len(words)])
       /\ words[1][1] = LowerChar(parts[1][1])

\* name_lower.split()[-1] raises at the first entry of two or more words
StarEntryRaises(key, words) == words = <<>> /\ Len(Split(key)) >= 2

\* the first entry of table the lookup stops at, 0 when it stops at none: an
\* exact key (line 117) wherever it is, else the first entry of the loop of
\* lines 121-129 that matches or raises
StarStop(table, player_name, name_lower, words) ==
    LET exact == {i \in 1..Len(table) : table[i].player = player_name}
        stops == IF exact # {} THEN exact
                 ELSE {i \in 1..Len(table) :
                          \/ StarEntryMatches(table[i].player, name_lower, words)
                          \/ StarEntryRaises(table[i].player, words)}
    IN IF stops = {} THEN 0 ELSE CHOOSE k \in stops : \A j \in stops : k <= j

\* what the lookup returns, having stopped at entry i of table
StarResult(table, i, name_lower, words) ==
    IF i = 0 THEN NotFound
    ELSE IF StarEntryRaises(table[i].player, words)
            /\ ~StarEntryMatches(table[i].player, name_lower, words)
    THEN LookupRaised("IndexError")
    ELSE Found(table[i])

StarLookup(table, player_name, name_lower, words) ==
    StarResult(table, StarStop(table, player_name, name_lower, words), name_lower, words)

\* get_star_player(player_name), lines 114-130, player_name any Python value
get_star_player(player_name) ==
    IF player_name.ty \in {"list", "dict"} THEN LookupRaised("TypeError")  \* unhashable
    ELSE IF player_name.ty # "str" THEN LookupRaised("AttributeError")     \* .lower()
    ELSE StarLookup(STAR_PLAYERS, player_name.v, Strip(Lower(player_name.v)),
                    Split(Strip(Lower(player_name.v))))

(***************************************************************************)
(* InjuryAnalyzer._compute_team_impact, lines 390-464.  Weights, penalties  *)
(* and boosts are in hundredths, the total in hundredths, the rounded      *)
(* total_impact_score in tenths.                                           *)
(***************************************************************************)
S_Out == <<"O", "u", "t">>
S_Doubtful == <<"D", "o", "u", "b", "t", "f", "u", "l">>
S_Questionable == <<"Q", "u", "e", "s", "t", "i", "o", "n", "a", "b", "l", "e">>
S_DayToDay == <<"D", "a", "y", "-", "t", "o", "-", "D", "a", "y">>
S_Probable == <<"P", "r", "o", "b", "a", "b", "l", "e">>
S_Indefinite == <<"I", "n", "d", "e", "f", "i", "n", "i", "t", "e">>
S_Unknown == <<"U", "n", "k", "n", "o", "w", "n">>
S_FullyHealthy == <<"F", "u", "l", "l", "y", " ", "h", "e", "a", "l", "t", "h", "y">>
S_MinorOnly == <<"M", "i", "n", "o", "r", " ", "i", "n", "j", "u", "r", "i", "e", "s", " ", "o", "n", "l", "y">>
S_KeyOut == <<"K", "e", "y", " ", "o", "u", "t", ":", " ">>
S_CommaSpace == <<",", " ">>
S_SemiSpace == <<";", " ">>
S_Plus == <<"+">>
S_Others == <<" ", "o", "t", "h", "e", "r", "s", " ", "o", "u", "t", "/", "d", "o", "u", "b", "t", "f", "u", "l">>

StatusWeight_ProbableIgnored(status) ==
    IF status.ty # "str" THEN 50
    ELSE CASE status.v = S_Out -> 100
           [] status.v = S_Doubtful -> 85
           [] status.v = S_Questionable -> 40
           [] status.v = S_DayToDay -> 50
           [] status.v = S_Probable -> 0
           [] OTHER -> 50

StatusWeight_DoubtfulAsOut(status) ==
    IF status.ty # "str" THEN 50
    ELSE CASE status.v = S_Out -> 100
           [] status.v = S_Doubtful -> 100
           [] status.v = S_Questionable -> 40
           [] status.v = S_DayToDay -> 50
           [] status.v = S_Probable -> 15
           [] OTHER -> 50

\* lines 415-418: the status -> weight table and its default
StatusWeight(status) ==
    IF status.ty # "str" THEN 50
    ELSE CASE status.v = S_Out -> 100
           [] status.v = S_Doubtful -> 85
           [] status.v = S_Questionable -> 40
           [] status.v = S_DayToDay -> 50
           [] status.v = S_Probable -> 15
           [] OTHER -> 50

IsOut_OutOnly(status) == status.ty = "str" /\ status.v = S_Out

\* lines 423, 426: status in ('Out', 'Doubtful')
IsOut(status) == status.ty = "str" /\ status.v \in {S_Out, S_Doubtful}

Severity_StrictCritical(adj_em_penalty) ==
    IF adj_em_penalty > 500 THEN "critical"
    ELSE IF adj_em_penalty >= 250 THEN "significant"
    ELSE IF adj_em_penalty >= 100 THEN "moderate"
    ELSE IF adj_em_penalty > 0 THEN "minor"
    ELSE "none"

\* lines 436-445
Severity(adj_em_penalty) ==
    IF adj_em_penalty >= 500 THEN "critical"
    ELSE IF adj_em_penalty >= 250 THEN "significant"
    ELSE IF adj_em_penalty >= 100 THEN "moderate"
    ELSE IF adj_em_penalty > 0 THEN "minor"
    ELSE "none"

Summary_CountsAllOut(key_players_out, out_players) ==
    LET names == [i \in 1..Len(key_players_out) |-> key_players_out[i].v]
        part1 == IF key_players_out # <<>>
                 THEN <<S_KeyOut \o Join(S_CommaSpace, names)>> ELSE <<>>
        part2 == IF out_players > Len(key_players_out)
                 THEN <<S_Plus \o StrOfNat(out_players) \o S_Others>>
                 ELSE <<>>
        summary_parts == part1 \o part2
    IN IF summary_parts # <<>> THEN Join(S_SemiSpace, summary_parts) ELSE S_MinorOnly

\* lines 447-452; key_players_out holds str values here
Summary(key_players_out, out_players) ==
    LET names == [i \in 1..Len(key_players_out) |-> key_players_out[i].v]
        part1 == IF key_players_out # <<>>
                 THEN <<S_KeyOut \o Join(S_CommaSpace, names)>> ELSE <<>>
        part2 == IF out_players > Len(key_players_out)
                 THEN <<S_Plus \o StrOfNat(out_players - Len(key_players_out)) \o S_Others>>
                 ELSE <<>>
        summary_parts == part1 \o part2
    IN IF summary_parts # <<>> THEN Join(S_SemiSpace, summary_parts) ELSE S_MinorOnly

FullyHealthy_MinorSeverity ==
    [adj_em_penalty |-> 0, variance_boost |-> 0, tempo_adj |-> 0,
     summary |-> S_FullyHealthy, severity |-> "minor", out_starters |-> 0,
     out_players |-> 0, key_players_out |-> <<>>, total_impact_score |-> 0]

\* lines 393-403: the summary of an empty list
FullyHealthy ==
    [adj_em_penalty |-> 0, variance_boost |-> 0, tempo_adj |-> 0,
     summary |-> S_FullyHealthy, severity |-> "none", out_starters |-> 0,
     out_players |-> 0, key_players_out |-> <<>>, total_impact_score |-> 0]

Returned(value) == [raised |-> "", value |-> value]
Raised(exc) == [raised |-> exc, value |-> <<>>]

\* no function has been called, the process has not been started, no request
\* has been answered
NoCall == <<>>
\* what request.args.get and os.getenv give: None when the name is missing,
\* else its text
Missing == [present |-> FALSE, v |-> <<>>]

Given(text) == [present |-> TRUE, v |-> text]

\* not x, for such a value
Falsy(x) == ~x.present \/ x.v = <<>>

\* the process before app.py is imported
NoApp ==
    [started |-> "no", injury_analyzer |-> FALSE,
     env |-> [KENPOM_API_KEY |-> Missing, ANTHROPIC_API_KEY |-> Missing]]
NoResponse == [status |-> 0, body |-> <<>>, called |-> {}]

\* lines 405-427: the loop over the records, acc the locals before record 1
RECURSIVE ImpactLoop(_, _)
ImpactLoop(injs, acc) ==
    IF injs = <<>> \/ acc.raised # "" THEN acc
    ELSE LET inj == Head(injs)
             score == DictGet(inj, "impact_score", PInt(3))
             status == DictGet(inj, "status", PStr(S_Questionable))
             is_starter == DictGet(inj, "is_starter", PBool(FALSE))
             starter_out == IsOut(status) /\ Truthy(is_starter)
         IN IF status.ty \in {"list", "dict"}
            THEN [acc EXCEPT !.raised = "TypeError"]       \* unhashable dict key
            ELSE IF score.ty \notin {"int", "bool"}
            THEN [acc EXCEPT !.raised = "TypeError"]       \* score * status_weight
            ELSE ImpactLoop(Tail(injs),
                   [raised |-> "",
                    total_impact |-> acc.total_impact
                        + (IF score.ty = "bool" THEN (IF score.v THEN 1 ELSE 0) ELSE score.v)
                          * StatusWeight(status),
                    out_starters |-> acc.out_starters + (IF starter_out THEN 1 ELSE 0),
                    out_players |-> acc.out_players + (IF IsOut(status) THEN 1 ELSE 0),
                    key_players_out |->
                        IF starter_out
                        THEN Append(acc.key_players_out, DictGet(inj, "player", PStr(S_Unknown)))
                        ELSE acc.key_players_out])

\* _compute_team_impact(injuries): what it returns, or the exception it raises.
\* total_impact_score rounds a binary float to one place: at an exact decimal
\* tie the code's result depends on the float's representation error, and the
\* value here is the exact decimal's.
compute_team_impact(injs) ==
    IF injs = <<>> THEN Returned(FullyHealthy)
    ELSE LET a == ImpactLoop(injs, [raised |-> "", total_impact |-> 0, out_starters |-> 0,
                                    out_players |-> 0, key_players_out |-> <<>>])
         IN IF a.raised # "" THEN Raised(a.raised)
            ELSE IF \E i \in 1..Len(a.key_players_out) : a.key_players_out[i].ty # "str"
            THEN Raised("TypeError")                       \* ', '.join(key_players_out)
            ELSE LET adj_em_penalty == RoundHalfEven(a.total_impact * 4, 10) IN
                 Returned(
                   [adj_em_penalty |-> adj_em_penalty,
                    variance_boost |->
                        RoundHalfEven(a.out_players * 150 + a.out_starters * 250, 10),
                    tempo_adj |-> RoundHalfEven(0 - a.out_starters * 300, 10),
                    out_starters |-> a.out_starters,
                    out_players |-> a.out_players,
                    total_impact_score |-> RoundHalfEven(a.total_impact, 10),
                    key_players_out |-> [i \in 1..Len(a.key_players_out) |->
                                            a.key_players_out[i].v],
                    summary |-> Summary(a.key_players_out, a.out_players),
                    severity |-> Severity(adj_em_penalty)])


(***************************************************************************)
(* The language model's reply, as a sequence of lexical tokens: a code     *)
(* fence, a word of prose, JSON punctuation, a JSON scalar, or an object   *)
(* key with its colon.  White space between tokens is left out.            *)
(***************************************************************************)
Sym(t) == [t |-> t, v |-> <<>>]
Fence == Sym("fence")
Word(s) == [t |-> "word", v |-> s]
StrLit(s) == [t |-> "str", v |-> s]
IntLit(n) == [t |-> "int", v |-> n]
Key(k) == [t |-> "key", v |-> k]

S_json == <<"j", "s", "o", "n">>

ParseFail == [ok |-> FALSE, val |-> PNone, next |-> 0]
Parsed(val, next) == [ok |-> TRUE, val |-> val, next |-> next]

\* json.loads, the value that starts at token i
RECURSIVE ParseValue(_, _)
RECURSIVE ParseItems(_, _, _)
RECURSIVE ParseMembers(_, _, _)
ParseValue(toks, i) ==
    IF i > Len(toks) THEN ParseFail
    ELSE CASE toks[i].t = "str" -> Parsed(PStr(toks[i].v), i + 1)
           [] toks[i].t = "int" -> Parsed(PInt(toks[i].v), i + 1)
           [] toks[i].t = "null" -> Parsed(PNone, i + 1)
           [] toks[i].t = "true" -> Parsed(PBool(TRUE), i + 1)
           [] toks[i].t = "false" -> Parsed(PBool(FALSE), i + 1)
           [] toks[i].t = "[" ->
                IF i + 1 <= Len(toks) /\ toks[i + 1].t = "]"
                THEN Parsed(PList(<<>>), i + 2)
                ELSE ParseItems(toks, i + 1, <<>>)
           [] toks[i].t = "{" ->
                IF i + 1 <= Len(toks) /\ toks[i + 1].t = "}"
                THEN Parsed(PDict(<<>>), i + 2)
                ELSE ParseMembers(toks, i + 1, <<>>)
           [] OTHER -> ParseFail

ParseItems(toks, i, acc) ==
    LET item == ParseValue(toks, i) IN
    IF ~item.ok \/ item.next > Len(toks) THEN ParseFail
    ELSE IF toks[item.next].t = "," THEN ParseItems(toks, item.next + 1, Append(acc, item.val))
    ELSE IF toks[item.next].t = "]" THEN Parsed(PList(Append(acc, item.val)), item.next + 1)
    ELSE ParseFail

ParseMembers(toks, i, acc) ==
    IF i > Len(toks) \/ toks[i].t # "key" THEN ParseFail
    ELSE LET member == ParseValue(toks, i + 1) IN
         IF ~member.ok \/ member.next > Len(toks) THEN ParseFail
         ELSE IF toks[member.next].t = ","
         THEN ParseMembers(toks, member.next + 1, DictSet(acc, toks[i].v, member.val))
         ELSE IF toks[member.next].t = "}"
         THEN Parsed(PDict(DictSet(acc, toks[i].v, member.val)), member.next + 1)
         ELSE ParseFail

\* json.loads(text): JSONDecodeError unless the whole text is one value
json_loads(toks) ==
    LET r == ParseValue(toks, 1) IN
    IF r.ok /\ r.next = Len(toks) + 1 THEN [ok |-> TRUE, val |-> r.val]
    ELSE [ok |-> FALSE, val |-> PNone]

\* text.split(fence)[1], for a text that holds a fence
BetweenFences(text) ==
    LET fences == {i \in 1..Len(text) : text[i].t = "fence"}
        first == CHOOSE i \in fences : \A j \in fences : i <= j
        later == fences \ {first}
        second == IF later = {} THEN Len(text) + 1
                  ELSE CHOOSE i \in later : \A j \in later : i <= j
    IN SubSeq(text, first + 1, second - 1)

\* lines 188-191: text[start:end + 1] when a '[' comes before the last ']'
ArraySlice(text) ==
    LET opens == {i \in 1..Len(text) : text[i].t = "["}
        closes == {i \in 1..Len(text) : text[i].t = "]"}
    IN IF opens = {} \/ closes = {} THEN text
       ELSE LET start == CHOOSE i \in opens : \A j \in opens : i <= j
                end == CHOOSE i \in closes : \A j \in closes : i >= j
            IN IF end > start THEN SubSeq(text, start, end) ELSE text

\* InjuryAnalyzer._parse_json_response(text): the list it returns
parse_json_response(text) ==
    LET fenced == IF \E i \in 1..Len(text) : text[i].t = "fence"
                  THEN LET inner == BetweenFences(text) IN
                       IF inner # <<>> /\ inner[1] = Word(S_json) THEN Tail(inner) ELSE inner
                  ELSE text
        result == json_loads(ArraySlice(fenced))
    IN IF result.ok /\ result.val.ty = "list" THEN result.val.v ELSE <<>>

(***************************************************************************)
(* InjuryAnalyzer._team_match and _apply_star_overrides                    *)
(***************************************************************************)
Normalize_KeepsApostrophes(name) ==
    Replace(Replace(Replace(name, <<".">>, <<>>),
                    <<"s", "t", " ">>, <<"s", "t", "a", "t", "e", " ">>),
            <<"u", "c", "o", "n", "n">>,
            <<"c", "o", "n", "n", "e", "c", "t", "i", "c", "u", "t">>)

\* lines 491-496: the four replacements, in the dict's order
Normalize(name) ==
    Replace(Replace(Replace(Replace(name, <<".">>, <<>>), <<"'">>, <<>>),
                    <<"s", "t", " ">>, <<"s", "t", "a", "t", "e", " ">>),
            <<"u", "c", "o", "n", "n">>,
            <<"c", "o", "n", "n", "e", "c", "t", "i", "c", "u", "t">>)

MinPrefixTarget == 5

\* _team_match(scraped_name, target_name): scraped_name is whatever the reply
\* held under "team", target_name the str the caller asked for
team_match(scraped_name, target_name) ==
    IF ~Truthy(scraped_name) \/ target_name = <<>> THEN Returned(FALSE)
    ELSE IF scraped_name.ty # "str" THEN Raised("AttributeError")     \* .lower()
    ELSE LET s == Strip(Lower(scraped_name.v))
             t == Strip(Lower(target_name))
             s_clean == Normalize(s)
             t_clean == Normalize(t)
         IN Returned(\/ s = t
                     \/ s_clean = t_clean
                     \/ /\ Len(t_clean) >= MinPrefixTarget
                        /\ StartsWith(s_clean, t_clean) \/ StartsWith(t_clean, s_clean))

\* line 308, 371, 372 for one record: whether it stays
TeamMatchOf(inj, team) ==
    IF inj.ty # "dict" THEN Raised("AttributeError")                  \* i.get
    ELSE team_match(DictGet(inj.v, "team", PStr(<<>>)), team)

\* the outcomes of the loop bodies, the first exception if one was raised
FirstRaised(outcomes) ==
    LET raising == {i \in 1..Len(outcomes) : outcomes[i].raised # ""} IN
    IF raising = {} THEN Returned([i \in 1..Len(outcomes) |-> outcomes[i].value])
    ELSE Raised(outcomes[CHOOSE k \in raising : \A j \in raising : k <= j].raised)

\* the records of injs whose flag in keep is true
Kept(injs, keep) ==
    IF keep.raised # "" THEN keep
    ELSE LET Stays(pair) == pair[2]
             pairs == SelectSeq([i \in 1..Len(injs) |-> <<injs[i], keep.value[i]>>], Stays)
         IN Returned([i \in 1..Len(pairs) |-> pairs[i][1]])

\* [i for i in injuries if self._team_match(i.get('team', ''), team)]
FilterTeam(injs, team) ==
    Kept(injs, FirstRaised([i \in 1..Len(injs) |-> TeamMatchOf(injs[i], team)]))

StarterTiers == {"superstar", "star", "key_star", "starter"}

Overridden_KeepsStarter(inj, star) ==
    IF star.raised # "" THEN Raised(star.raised)
    ELSE IF star.found
    THEN Returned(PDict(
           DictSet(DictSet(inj.v,
               "impact_score", PInt(star.star.impact)),
               "star_verified", PBool(TRUE))))
    ELSE Returned(PDict(DictSet(inj.v, "star_verified", PBool(FALSE))))

\* lines 471-479: the record after the lookup returned star
Overridden(inj, star) ==
    IF star.raised # "" THEN Raised(star.raised)
    ELSE IF star.found
    THEN Returned(PDict(
           DictSet(DictSet(DictSet(inj.v,
               "impact_score", PInt(star.star.impact)),
               "is_starter", PBool(star.star.tier \in StarterTiers)),
               "star_verified", PBool(TRUE))))
    ELSE Returned(PDict(DictSet(inj.v, "star_verified", PBool(FALSE))))

\* lines 469-479: the loop body for one record
StarOverride(inj) ==
    IF inj.ty # "dict" THEN Raised("AttributeError")                  \* inj.get
    ELSE Overridden(inj, get_star_player(DictGet(inj.v, "player", PStr(<<>>))))

\* _apply_star_overrides(injuries)
apply_star_overrides(injs) == FirstRaised([i \in 1..Len(injs) |-> StarOverride(injs[i])])

(***************************************************************************)
(* InjuryFetcher.  A feed call either fails in transport (session.get or   *)
(* raise_for_status raises a requests.RequestException) or replies with    *)
(* the feed's items.                                                       *)
(***************************************************************************)
RequestExceptions == {"ConnectionError", "Timeout", "HTTPError"}

FeedFailed(exc) == [ok |-> FALSE, exc |-> exc, items |-> <<>>]
FeedReplied(items) == [ok |-> TRUE, exc |-> "", items |-> items]

\* an article of the ESPN JSON, an item of the Google RSS; pubDate carries
\* its text and what email.utils.parsedate_to_datetime makes of it: whether it
\* parses, and the wall-clock minute it reads once the zone is dropped
Article(headline, description, published) ==
    [headline |-> headline, description |-> description, published |-> published]

PubDate(text, parses, t) == [text |-> text, parses |-> parses, t |-> t]

RssItem(title, pubDate, source) == [title |-> title, pubDate |-> pubDate, source |-> source]

\* the dicts both fetchers return
NewsItem(headline, description, published, source) ==
    [headline |-> headline, description |-> description,
     published |-> published, source |-> source]

\* s[:n]
Prefix(s, n) == SubSeq(s, 1, IF n < Len(s) THEN n ELSE Len(s))

\* lines 77-80
injury_kws ==
    <<<<"i", "n", "j", "u", "r">>, <<"o", "u", "t", " ", "f", "o", "r">>, <<"o", "u", "t", " ", "i", "n", "d", "e", "f", "i", "n", "i", "t", "e", "l", "y">>, <<"m", "i", "s", "s", " ">>, <<"m", "i", "s", "s", "e", "s", " ">>,
      <<"s", "i", "d", "e", "l", "i", "n", "e", "d">>, <<"q", "u", "e", "s", "t", "i", "o", "n", "a", "b", "l", "e">>, <<"d", "a", "y", "-", "t", "o", "-", "d", "a", "y">>, <<"s", "u", "r", "g", "e", "r", "y">>,
      <<"s", "p", "r", "a", "i", "n">>, <<"t", "o", "r", "n">>, <<"f", "r", "a", "c", "t", "u", "r", "e">>, <<"c", "o", "n", "c", "u", "s", "s", "i", "o", "n">>, <<"k", "n", "e", "e">>,
      <<"a", "n", "k", "l", "e">>, <<"s", "h", "o", "u", "l", "d", "e", "r">>, <<"h", "a", "m", "s", "t", "r", "i", "n", "g">>, <<"A", "C", "L">>, <<"M", "C", "L">>>>

S_espn == <<"e", "s", "p", "n">>
S_GoogleNews == <<"G", "o", "o", "g", "l", "e", " ", "N", "e", "w", "s">>

CatchesRequestException_ConnectionOnly(exc) == exc \in {"ConnectionError", "Timeout"}

\* lines 92 and 130: except requests.RequestException
CatchesRequestException(exc) == exc \in RequestExceptions

\* fetch_espn_news(limit) when the feed call ends as feed says
fetch_espn_news(feed) ==
    IF ~feed.ok
    THEN IF CatchesRequestException(feed.exc) THEN Returned(<<>>) ELSE Raised(feed.exc)
    ELSE LET IsInjury(a) ==
                 LET text == Lower(a.headline \o <<" ">> \o a.description) IN
                 \E k \in 1..Len(injury_kws) : Contains(text, Lower(injury_kws[k]))
             kept == SelectSeq(feed.items, IsInjury)
         IN Returned([i \in 1..Len(kept) |->
                NewsItem(kept[i].headline, kept[i].description, kept[i].published, S_espn)])

\* line 109: timedelta(days=45), in minutes
RecentMinutes == 45 * 24 * 60

fetch_google_news_FilterThenCap(feed, max_results, t) ==
    IF ~feed.ok
    THEN IF CatchesRequestException(feed.exc) THEN Returned(<<>>) ELSE Raised(feed.exc)
    ELSE LET cutoff == t - RecentMinutes
             Recent(item) == ~(item.pubDate.parses /\ item.pubDate.t < cutoff)
             kept == Prefix(SelectSeq(feed.items, Recent), max_results)
         IN Returned([i \in 1..Len(kept) |->
                NewsItem(kept[i].title, <<>>, kept[i].pubDate.text,
                         IF kept[i].source.ty = "str" THEN kept[i].source.v
                         ELSE S_GoogleNews)])

\* fetch_google_news(team_name, max_results) at time t
fetch_google_news(feed, max_results, t) ==
    IF ~feed.ok
    THEN IF CatchesRequestException(feed.exc) THEN Returned(<<>>) ELSE Raised(feed.exc)
    ELSE LET cutoff == t - RecentMinutes
             considered == Prefix(feed.items, max_results)
             Recent(item) == ~(item.pubDate.parses /\ item.pubDate.t < cutoff)
             kept == SelectSeq(considered, Recent)
         IN Returned([i \in 1..Len(kept) |->
                NewsItem(kept[i].title, <<>>, kept[i].pubDate.text,
                         IF kept[i].source.ty = "str" THEN kept[i].source.v
                         ELSE S_GoogleNews)])

\* line 157
MatchupTextBudget == 6000

\* lines 142-145: the lines of one ESPN item
EspnLines(a) ==
    <<<<"[">> \o Prefix(a.published, 10) \o <<"]", " ">> \o a.headline>>
    \o (IF a.description # <<>> THEN <<<<" ", " ">> \o Prefix(a.description, 200)>> ELSE <<>>)

\* lines 149 and 153: the line of one Google item
GoogleLine(a) ==
    <<"[">> \o Prefix(a.published, 16) \o <<"]", " ">> \o a.headline
    \o <<" ", "(">> \o a.source \o <<")">>

\* lines 147 and 151
GoogleHeader(team) == <<"\n">> \o <<"=", "=", "=", " ">> \o team \o <<" ", "I", "n", "j", "u", "r", "y", " ", "N", "e", "w", "s", " ", "(", "G", "o", "o", "g", "l", "e", ")", " ", "=", "=", "=">>

\* lines 140-155: the text before the cut
MatchupText(espn_news, t1_google, t2_google, team1, team2) ==
    Join(<<"\n">>,
         <<<<"=", "=", "=", " ", "E", "S", "P", "N", " ", "R", "e", "c", "e", "n", "t", " ", "I", "n", "j", "u", "r", "y", " ", "N", "e", "w", "s", " ", "=", "=", "=">>>>
         \o Concat([i \in 1..Len(espn_news) |-> EspnLines(espn_news[i])])
         \o <<GoogleHeader(team1)>>
         \o [i \in 1..Len(t1_google) |-> GoogleLine(t1_google[i])]
         \o <<GoogleHeader(team2)>>
         \o [i \in 1..Len(t2_google) |-> GoogleLine(t2_google[i])])

\* lines 140-157, the three fetches done
MatchupNews(espn_news, t1_google, t2_google, team1, team2) ==
    IF espn_news.raised # "" THEN espn_news
    ELSE IF t1_google.raised # "" THEN t1_google
    ELSE IF t2_google.raised # "" THEN t2_google
    ELSE Returned(Prefix(MatchupText(espn_news.value, t1_google.value, t2_google.value,
                                     team1, team2),
                         MatchupTextBudget))

\* fetch_matchup_news(team1, team2) at time t
fetch_matchup_news(espn, google1, google2, team1, team2, t) ==
    MatchupNews(fetch_espn_news(espn), fetch_google_news(google1, 10, t),
                fetch_google_news(google2, 10, t), team1, team2)

(***************************************************************************)
(* What the two feeds can answer, by name.                                 *)
(***************************************************************************)
S_Kansas == <<"K", "a", "n", "s", "a", "s">>
S_KansasState == <<"K", "a", "n", "s", "a", "s", " ", "S", "t", "a", "t", "e">>
S_Arkansas == <<"A", "r", "k", "a", "n", "s", "a", "s">>
S_Duke == <<"D", "u", "k", "e">>

ArticleKansas ==
    Article(<<"K", "a", "n", "s", "a", "s", " ", "g", "u", "a", "r", "d", " ", "B", "o", " ", "L", "i", " ", "o", "u", "t", " ", "w", "i", "t", "h", " ", "k", "n", "e", "e", " ", "i", "n", "j", "u", "r", "y">>, <<>>, <<"2", "0", "2", "6", "-", "0", "3", "-", "0", "1", "T", "1", "0", ":", "0", "0", ":", "0", "0", "Z">>)
ArticleDuke ==
    Article(<<"D", "u", "k", "e", " ", "s", "t", "a", "r", " ", "s", "i", "d", "e", "l", "i", "n", "e", "d">>, <<"C", "o", "o", "p", "e", "r", " ", "F", "l", "a", "g", "g", " ", "m", "i", "s", "s", "e", "s", " ", "p", "r", "a", "c", "t", "i", "c", "e">>,
            <<"2", "0", "2", "6", "-", "0", "3", "-", "0", "1", "T", "0", "9", ":", "0", "0", ":", "0", "0", "Z">>)
ArticleScore ==
    Article(<<"K", "a", "n", "s", "a", "s", " ", "w", "i", "n", "s", " ", "b", "i", "g">>, <<"F", "i", "n", "a", "l", " ", "s", "c", "o", "r", "e", " ", "8", "0", "-", "7", "0">>, <<"2", "0", "2", "6", "-", "0", "2", "-", "2", "8", "T", "2", "2", ":", "0", "0", ":", "0", "0", "Z">>)
\* a description longer than the 200 characters line 145 keeps
LongDescription == 201

ArticleLong ==
    Article(<<"I", "n", "j", "u", "r", "y", " ", "u", "p", "d", "a", "t", "e", ":", " ", "A", "u", "b", "u", "r", "n", " ", "f", "o", "r", "w", "a", "r", "d", " ", "o", "u", "t">>, [i \in 1..LongDescription |-> "x"],
            <<"2", "0", "2", "6", "-", "0", "2", "-", "2", "7", "T", "1", "2", ":", "0", "0", ":", "0", "0", "Z">>)

\* the limit the handlers pass to fetch_espn_news (lines 71, 206, 258)
EspnLimit == 50

EspnFeeds ==
    [down |-> FeedFailed("ConnectionError"),
     timeout |-> FeedFailed("Timeout"),
     http_error |-> FeedFailed("HTTPError"),
     empty |-> FeedReplied(<<>>),
     kansas |-> FeedReplied(<<ArticleKansas>>),
     mixed |-> FeedReplied(<<ArticleScore, ArticleDuke, ArticleKansas>>),
     full |-> FeedReplied([i \in 1..EspnLimit |->
                              IF i = EspnLimit THEN ArticleKansas ELSE ArticleLong])]

ItemRecent ==
    RssItem(<<"K", "a", "n", "s", "a", "s", " ", "i", "n", "j", "u", "r", "y", " ", "r", "e", "p", "o", "r", "t", ":", " ", "B", "o", " ", "L", "i", " ", "o", "u", "t">>,
            PubDate(<<"S", "u", "n", ",", " ", "0", "1", " ", "M", "a", "r", " ", "2", "0", "2", "6", " ", "1", "0", ":", "0", "0", ":", "0", "0", " ", "G", "M", "T">>, TRUE, 0 - 600), PStr(<<"E", "S", "P", "N">>))
ItemOld ==
    RssItem(<<"K", "a", "n", "s", "a", "s", " ", "p", "r", "e", "s", "e", "a", "s", "o", "n", " ", "i", "n", "j", "u", "r", "y", " ", "u", "p", "d", "a", "t", "e">>,
            PubDate(<<"M", "o", "n", ",", " ", "0", "1", " ", "D", "e", "c", " ", "2", "0", "2", "5", " ", "1", "0", ":", "0", "0", ":", "0", "0", " ", "G", "M", "T">>, TRUE, 0 - RecentMinutes - 1440), PNone)
ItemAtCutoff ==
    RssItem(<<"K", "a", "n", "s", "a", "s", " ", "f", "o", "r", "w", "a", "r", "d", " ", "d", "a", "y", "-", "t", "o", "-", "d", "a", "y">>,
            PubDate(<<"T", "h", "u", ",", " ", "1", "5", " ", "J", "a", "n", " ", "2", "0", "2", "6", " ", "0", "0", ":", "0", "0", ":", "0", "0", " ", "G", "M", "T">>, TRUE, 0 - RecentMinutes),
            PStr(<<"K", "U", " ", "S", "p", "o", "r", "t", "s">>))
ItemUndated ==
    RssItem(<<"K", "a", "n", "s", "a", "s", " ", "i", "n", "j", "u", "r", "y", " ", "r", "u", "m", "o", "r">>, PubDate(<<>>, FALSE, 0), PStr(<<"B", "l", "o", "g">>))

GoogleFeeds ==
    [timeout |-> FeedFailed("Timeout"),
     http_error |-> FeedFailed("HTTPError"),
     empty |-> FeedReplied(<<>>),
     recent |-> FeedReplied(<<ItemRecent>>),
     mixed |-> FeedReplied(<<ItemOld, ItemRecent, ItemUndated, ItemAtCutoff>>)]

(***************************************************************************)
(* InjuryAnalyzer: the three request handlers.  Each is given the cache    *)
(* files d, the time t, and how its feed calls and its language-model call *)
(* end; it yields the record of the run and the cache files afterwards.    *)
(* The prompt (the news text, get_team_stars, build_star_context) only     *)
(* reaches the language model, whose reply is an input here.               *)
(***************************************************************************)
ModelFailed(exc) == [ok |-> FALSE, exc |-> exc, text |-> <<>>]
ModelReplied(text) == [ok |-> TRUE, exc |-> "", text |-> text]
NotAsked == ModelFailed("not asked")
NoFeed == "not called"

\* lines 202, 253
ResultTTL == 120
\* line 328
MatchupTTL == 60

CacheKeyAll == <<"a", "l", "l", "_", "i", "n", "j", "u", "r", "i", "e", "s", "_", "n", "e", "w", "s">>
CacheKeyTeam(team_name) == <<"t", "e", "a", "m", "_", "i", "n", "j", "u", "r", "i", "e", "s", "_">> \o team_name
CacheKeyMatchup(team1, team2) == <<"m", "a", "t", "c", "h", "u", "p", "_">> \o team1 \o <<"_", "v", "s", "_">> \o team2

S_injuries_source_all == <<"e", "s", "p", "n", "_", "n", "e", "w", "s", "+", "c", "l", "a", "u", "d", "e">>
S_injuries_source_team == <<"g", "o", "o", "g", "l", "e", "_", "n", "e", "w", "s", "+", "e", "s", "p", "n", "+", "c", "l", "a", "u", "d", "e">>
S_espn_news == <<"e", "s", "p", "n", "_", "n", "e", "w", "s">>
S_none == <<"n", "o", "n", "e">>
S_NoNews == <<"N", "o", " ", "i", "n", "j", "u", "r", "y", " ", "n", "e", "w", "s", " ", "f", "o", "u", "n", "d">>

NoRun ==
    [op |-> "none", teams |-> <<>>, force |-> FALSE, hit |-> FALSE,
     espn |-> NoFeed, google |-> <<>>, articles |-> <<>>,
     llm |-> NotAsked, set_called |-> FALSE, raised |-> "", result |-> <<>>]

CacheHit_Never(cached, key) == FALSE

\* cached and key in cached
CacheHit(cached, key) == cached.hit /\ cached.data # <<>> /\ DictHas(cached.data, key)

\* the run's exception goes to the caller
Propagate(run_, d, exc) == [run |-> [run_ EXCEPT !.raised = exc], disk |-> d]

\* return result
Respond(run_, d, result) == [run |-> [run_ EXCEPT !.result = result], disk |-> d]

StoreAndRespond_NoWrite(run_, d, t, key, result) ==
    [run |-> [run_ EXCEPT !.set_called = TRUE, !.result = InjuryCache_set_stamp(result, t)],
     disk |-> d]

\* self.cache.set(cache_key, result); return result
StoreAndRespond(run_, d, t, key, result) ==
    [run |-> [run_ EXCEPT !.set_called = TRUE, !.result = InjuryCache_set_stamp(result, t)],
     disk |-> [d EXCEPT ![key] = InjuryCache_set(result, t)]]

\* a list with the exception of the step that made it swallowed (the except
\* clauses of lines 235, 311, 367)
OrEmpty(outcome) == IF outcome.raised # "" THEN <<>> ELSE outcome.value

\* lines 232-237: the extraction of get_all_injuries
ExtractAll(llm) == IF ~llm.ok THEN <<>> ELSE parse_json_response(llm.text)

\* lines 308-310 inside the try: the override pass runs on what the filter returned
OverrideFiltered(filtered) ==
    IF filtered.raised # "" THEN filtered ELSE apply_star_overrides(filtered.value)

\* lines 304-313: extraction, team filter and override of get_team_injuries
ExtractTeam(llm, team_name) ==
    IF ~llm.ok THEN <<>>
    ELSE OrEmpty(OverrideFiltered(FilterTeam(parse_json_response(llm.text), team_name)))

\* lines 362-369: extraction and override of get_matchup_injuries
ExtractMatchup(llm) ==
    IF ~llm.ok THEN <<>>
    ELSE OrEmpty(apply_star_overrides(parse_json_response(llm.text)))

\* lines 239-247
AllResult(run_, d, t, articles, injs) ==
    StoreAndRespond(run_, d, t, CacheKeyAll,
        <<KV("injuries", PList(injs)),
          KV("source", PStr(S_injuries_source_all)),
          KV("articles_analyzed", PInt(Len(articles))),
          KV("fetched_at", isoformat(t)),
          KV("count", PInt(Len(injs)))>>)

\* lines 206-247, the feed call done
AllFetched(run_, d, t, espn_articles, llm) ==
    IF espn_articles.raised # "" THEN Propagate(run_, d, espn_articles.raised)
    ELSE IF espn_articles.value = <<>>
    THEN Respond(run_, d,
           <<KV("injuries", PList(<<>>)), KV("source", PStr(S_espn_news)),
             KV("error", PStr(S_NoNews))>>)
    ELSE AllResult([run_ EXCEPT !.articles = espn_articles.value, !.llm = llm], d, t,
                   espn_articles.value, ExtractAll(llm))

\* lines 201-247, the cache read
AllCached(run_, d, t, force, cached, espn, llm) ==
    IF ~force /\ CacheHit(cached, "injuries")
    THEN Respond([run_ EXCEPT !.hit = TRUE], d, cached.data)
    ELSE AllFetched([run_ EXCEPT !.espn = espn], d, t, fetch_espn_news(EspnFeeds[espn]), llm)

\* get_all_injuries(force_refresh)
get_all_injuries(d, t, force, espn, llm) ==
    AllCached([NoRun EXCEPT !.op = "all", !.force = force], d, t, force,
              InjuryCache_get(d[CacheKeyAll], ResultTTL, t), espn, llm)

\* lines 315-323
TeamResult(run_, d, t, team_name, injs) ==
    StoreAndRespond(run_, d, t, CacheKeyTeam(team_name),
        <<KV("injuries", PList(injs)),
          KV("team", PStr(team_name)),
          KV("source", PStr(S_injuries_source_team)),
          KV("articles_analyzed", PInt(Len(run_.articles))),
          KV("fetched_at", isoformat(t))>>)

\* lines 265-323, all_articles put together
TeamArticles(run_, d, t, team_name, all_articles, llm) ==
    IF all_articles = <<>>
    THEN Respond(run_, d,
           <<KV("injuries", PList(<<>>)), KV("team", PStr(team_name)),
             KV("source", PStr(S_none)), KV("fetched_at", isoformat(t))>>)
    ELSE TeamResult([run_ EXCEPT !.articles = all_articles, !.llm = llm], d, t, team_name,
                    ExtractTeam(llm, team_name))

\* lines 260-263: the ESPN articles that mention the team
EspnFiltered(espn_articles, team_lower) ==
    LET Mentions(a) == \/ Contains(Lower(a.headline), team_lower)
                       \/ Contains(Lower(a.description), team_lower)
    IN SelectSeq(espn_articles, Mentions)

\* lines 258-323, the ESPN call done
TeamEspnFetched(run_, d, t, team_name, google_articles, espn_articles, llm) ==
    IF espn_articles.raised # "" THEN Propagate(run_, d, espn_articles.raised)
    ELSE TeamArticles(run_, d, t, team_name,
                      EspnFiltered(espn_articles.value, Lower(team_name)) \o google_articles,
                      llm)

\* lines 257-323, the Google call done
TeamGoogleFetched(run_, d, t, team_name, google_articles, espn, llm) ==
    IF google_articles.raised # "" THEN Propagate(run_, d, google_articles.raised)
    ELSE TeamEspnFetched([run_ EXCEPT !.espn = espn], d, t, team_name,
                         google_articles.value, fetch_espn_news(EspnFeeds[espn]), llm)

\* lines 252-323, the cache read
TeamCached(run_, d, t, team_name, force, cached, google, espn, llm) ==
    IF ~force /\ CacheHit(cached, "injuries")
    THEN Respond([run_ EXCEPT !.hit = TRUE], d, cached.data)
    ELSE TeamGoogleFetched([run_ EXCEPT !.google = <<google>>], d, t, team_name,
                           fetch_google_news(GoogleFeeds[google], 15, t), espn, llm)

\* get_team_injuries(team_name, force_refresh)
get_team_injuries(d, t, team_name, force, google, espn, llm) ==
    TeamCached([NoRun EXCEPT !.op = "team", !.teams = <<team_name>>, !.force = force],
               d, t, team_name, force,
               InjuryCache_get(d[CacheKeyTeam(team_name)], ResultTTL, t), google, espn, llm)

\* the dicts of a list of records
Dicts(injs) == [i \in 1..Len(injs) |-> injs[i].v]

net_injury_edge_Team1MinusTeam2(t1_impact, t2_impact) ==
    t1_impact.adj_em_penalty - t2_impact.adj_em_penalty

\* line 384: round(t2_impact['adj_em_penalty'] - t1_impact['adj_em_penalty'], 2),
\* both penalties being numbers of two decimal places
net_injury_edge(t1_impact, t2_impact) ==
    t2_impact.adj_em_penalty - t1_impact.adj_em_penalty

\* lines 377-388
MatchupResult(run_, d, t, t1_injuries, t2_injuries, t1_impact, t2_impact) ==
    IF t1_impact.raised # "" THEN Propagate(run_, d, t1_impact.raised)
    ELSE IF t2_impact.raised # "" THEN Propagate(run_, d, t2_impact.raised)
    ELSE StoreAndRespond(run_, d, t, CacheKeyMatchup(run_.teams[1], run_.teams[2]),
           <<KV("team1", PStr(run_.teams[1])), KV("team2", PStr(run_.teams[2])),
             KV("team1_injuries", PList(t1_injuries)),
             KV("team2_injuries", PList(t2_injuries)),
             KV("team1_impact", t1_impact.value),
             KV("team2_impact", t2_impact.value),
             KV("net_injury_edge", net_injury_edge(t1_impact.value, t2_impact.value)),
             KV("fetched_at", isoformat(t))>>)

\* lines 374-388, the two lists filtered
MatchupFiltered(run_, d, t, t1_injuries, t2_injuries) ==
    IF t1_injuries.raised # "" THEN Propagate(run_, d, t1_injuries.raised)
    ELSE IF t2_injuries.raised # "" THEN Propagate(run_, d, t2_injuries.raised)
    ELSE MatchupResult(run_, d, t, t1_injuries.value, t2_injuries.value,
                       compute_team_impact(Dicts(t1_injuries.value)),
                       compute_team_impact(Dicts(t2_injuries.value)))

\* lines 371-388, the extraction done
MatchupExtracted(run_, d, t, all_injuries) ==
    MatchupFiltered(run_, d, t, FilterTeam(all_injuries, run_.teams[1]),
                    FilterTeam(all_injuries, run_.teams[2]))

\* lines 333-388, the news fetched
MatchupFetched(run_, d, t, news_text, llm) ==
    IF news_text.raised # "" THEN Propagate(run_, d, news_text.raised)
    ELSE MatchupExtracted([run_ EXCEPT !.llm = llm], d, t, ExtractMatchup(llm))

\* lines 328-388, the cache read
MatchupCached(run_, d, t, cached, espn, google1, google2, llm) ==
    IF CacheHit(cached, "team1_injuries")
    THEN Respond([run_ EXCEPT !.hit = TRUE], d, cached.data)
    ELSE MatchupFetched([run_ EXCEPT !.espn = espn, !.google = <<google1, google2>>], d, t,
                        fetch_matchup_news(EspnFeeds[espn], GoogleFeeds[google1],
                                           GoogleFeeds[google2], run_.teams[1],
                                           run_.teams[2], t),
                        llm)

\* get_matchup_injuries(team1, team2)
get_matchup_injuries(d, t, team1, team2, espn, google1, google2, llm) ==
    MatchupCached([NoRun EXCEPT !.op = "matchup", !.teams = <<team1, team2>>], d, t,
                  InjuryCache_get(d[CacheKeyMatchup(team1, team2)], MatchupTTL, t),
                  espn, google1, google2, llm)

(***************************************************************************)
(* SpecCache: request threads calling InjuryCache.set and InjuryCache.get  *)
(* on one identifier.  set is open(path, 'w') (which truncates) followed   *)
(* by the writes json.dump's buffer is flushed in; nothing orders the      *)
(* steps of two threads.                                                   *)
(***************************************************************************)
Threads == {"t1", "t2"}

MaxSets == 2

\* result dicts of different sizes, as the handlers hand them to set
CachePayloads ==
    { <<KV("injuries", <<>>)>>,
      <<KV("injuries", <<1>>), KV("count", 1)>>,
      <<KV("injuries", <<1, 2>>), KV("count", 2)>> }

\* max_age_minutes: 0 and the default of line 36
MaxAges == {0, 60}

IdleWriter == [pc |-> "idle", p |-> <<>>, t |-> 0, data |-> <<>>, buf |-> <<>>, pos |-> 0]

NoSet == [p |-> <<>>, t |-> 0]

\* no get has just returned: any other step of the system puts got back here
NoGet == [called |-> FALSE, max_age |-> 0, result |-> Miss]

\* line 51: the payload is stamped with the current time
SetStamp(w, p) ==
    /\ writer[w].pc = "idle"
    /\ sets < MaxSets
    /\ sets' = sets + 1
    /\ LET data == InjuryCache_set_stamp(p, now) IN
       writer' = [writer EXCEPT ![w] =
                    [pc |-> "stamped", p |-> p, t |-> now, data |-> data,
                     buf |-> json_dump(data), pos |-> 0]]
    /\ got' = NoGet
    /\ UNCHANGED <<now, file, stored, lastDone, dirty>>
    /\ UNCHANGED impactVars
    /\ UNCHANGED pipeVars
    /\ UNCHANGED fnVars
    /\ UNCHANGED appVars

\* line 54: open(path, 'w') creates or truncates the file
SetOpen(w) ==
    /\ writer[w].pc = "stamped"
    /\ file' = [exists |-> TRUE, text |-> <<>>]
    /\ writer' = [writer EXCEPT ![w].pc = "writing"]
    /\ dirty' = (\E o \in Threads \ {w} : writer[o].pc = "writing")
    /\ got' = NoGet
    /\ UNCHANGED <<now, sets, stored, lastDone>>
    /\ UNCHANGED impactVars
    /\ UNCHANGED pipeVars
    /\ UNCHANGED fnVars
    /\ UNCHANGED appVars

\* line 55: one flush of json.dump's output, n tokens at the thread's offset;
\* the flush that writes the last token is followed by the close
SetWrite(w, n) ==
    /\ writer[w].pc = "writing"
    /\ n \in 1..(Len(writer[w].buf) - writer[w].pos)
    /\ LET chunk == SubSeq(writer[w].buf, writer[w].pos + 1, writer[w].pos + n)
           last == writer[w].pos + n = Len(writer[w].buf)
       IN /\ file' = [file EXCEPT !.text = WriteAt(@, writer[w].pos, chunk)]
          /\ writer' = [writer EXCEPT ![w] =
                          IF last THEN IdleWriter ELSE [@ EXCEPT !.pos = @ + n]]
          /\ stored' = IF last THEN stored \cup {writer[w].data} ELSE stored
          /\ lastDone' = IF last THEN [p |-> writer[w].p, t |-> writer[w].t] ELSE lastDone
    /\ got' = NoGet
    /\ UNCHANGED <<now, sets, dirty>>
    /\ UNCHANGED impactVars
    /\ UNCHANGED pipeVars
    /\ UNCHANGED fnVars
    /\ UNCHANGED appVars

\* InjuryCache.get, lines 36-48: exists, open, json.load, age check
Get(max_age) ==
    /\ got' = [called |-> TRUE, max_age |-> max_age,
               result |-> InjuryCache_get(file, max_age, now)]
    /\ UNCHANGED <<now, file, writer, sets, stored, lastDone, dirty>>
    /\ UNCHANGED impactVars
    /\ UNCHANGED pipeVars
    /\ UNCHANGED fnVars
    /\ UNCHANGED appVars

Tick ==
    /\ \E t \in ClockValues : t > now /\ now' = t
    /\ got' = NoGet
    /\ run' = NoRun
    /\ UNCHANGED <<file, writer, sets, stored, lastDone, dirty, disk, calls>>
    /\ UNCHANGED impactVars
    /\ UNCHANGED fnVars
    /\ UNCHANGED appVars

InitCache ==
    /\ now = 0
    /\ file = NoFile
    /\ writer = [w \in Threads |-> IdleWriter]
    /\ got = NoGet
    /\ sets = 0
    /\ stored = {}
    /\ lastDone = NoSet
    /\ dirty = FALSE
    /\ injuries = <<>>
    /\ impact = <<>>
    /\ disk = <<>>
    /\ run = NoRun
    /\ calls = 0
    /\ call = NoCall
    /\ ret = NoCall
    /\ app = NoApp
    /\ response = NoResponse

NextCache ==
    \/ \E w \in Threads, p \in CachePayloads : SetStamp(w, p)
    \/ \E w \in Threads : SetOpen(w)
    \/ \E w \in Threads, n \in 1..4 : SetWrite(w, n)
    \/ \E m \in MaxAges : Get(m)
    \/ Tick

SpecCache == InitCache /\ [][NextCache]_vars

(***************************************************************************)
(* Claims about the cache, under SpecCache.  In a state where got.called   *)
(* holds, a get has just returned: file and now are what it read.          *)
(***************************************************************************)
NoSetInProgress == \A w \in Threads : writer[w].pc # "writing"

\* the timestamp get reads from parsed data: the embedded one, else 2000-01-01
EmbeddedAt(data) ==
    IF DictHas(data, "_cached_at")
    THEN DictGet(data, "_cached_at", isoformat(0)).iso
    ELSE Year2000

\* C4: get(identifier, max_age) is a miss exactly when the file is absent, is
\* not valid structured data, or now - cached_at > max_age with cached_at the
\* timestamp embedded in the file; otherwise it returns the stored payload; a
\* get with max_age = 0 at any time after the embedded timestamp is a miss.
C4_GetMissExactly ==
    got.called =>
        LET r == got.result
            m == got.max_age
            l == json_load(file.text)
            absent == ~file.exists
            invalid == file.exists /\ ~l.ok
            expired == file.exists /\ l.ok /\ now - EmbeddedAt(l.data) > m
        IN /\ ~r.hit <=> (absent \/ invalid \/ expired)
           /\ r.hit => r.data = l.data
           /\ (m = 0 /\ file.exists /\ l.ok /\ now > EmbeddedAt(l.data)) => ~r.hit

\* a get with max_age 0 found the complete payload of a set stamped earlier
\* and missed
C4_Witness ==
    /\ got.called
    /\ got.max_age = 0
    /\ lastDone # NoSet
    /\ file.text = json_dump(Append(lastDone.p, KV("_cached_at", isoformat(lastDone.t))))
    /\ now > lastDone.t
    /\ ~got.result.hit

\* C5: after set(id, payload) has run with no other set overlapping it, a get
\* with elapsed time <= max_age and no set since returns the payload of that
\* (most recent) set, unchanged except for the added timestamp field.
C5_RoundTrip ==
    (/\ got.called
     /\ lastDone # NoSet
     /\ NoSetInProgress
     /\ ~dirty
     /\ now - lastDone.t <= got.max_age)
    => /\ got.result.hit
       /\ got.result.data = Append(lastDone.p, KV("_cached_at", isoformat(lastDone.t)))

\* two sets have finished one after the other with different payloads, and a
\* get some time after the second returned the second's payload
C5_Witness ==
    /\ sets = 2
    /\ Cardinality({d[1].val : d \in stored}) = 2
    /\ NoSetInProgress
    /\ ~dirty
    /\ got.called
    /\ got.result.hit
    /\ now > lastDone.t
    /\ got.result.data = Append(lastDone.p, KV("_cached_at", isoformat(lastDone.t)))

\* C6: under any interleaving of gets and sets on one identifier, a get
\* returns a miss or a payload exactly as some completed set stored it, and
\* once every set has finished the file holds the complete payload of one.
C6_NoCorruption ==
    /\ got.result.hit => got.result.data \in stored
    /\ (sets > 0 /\ \A w \in Threads : writer[w].pc = "idle")
           => file.text \in {json_dump(d) : d \in stored}

(***************************************************************************)
(* SpecImpact: _compute_team_impact applied to record lists.               *)
(***************************************************************************)
MaxRecords == 2

S_Al == <<"A", "l">>
S_Bo == <<"B", "o">>

InjuryRecord(player, status, is_starter, impact_score) ==
    <<KV("player", PStr(player)), KV("status", PStr(status)),
      KV("is_starter", PBool(is_starter)), KV("impact_score", PInt(impact_score))>>

\* the records the extraction prompt asks for (lines 288-296), and records
\* that lack some of the keys
RecordsIn ==
    { InjuryRecord(p, st, b, n) :
        p \in {S_Al, S_Bo},
        st \in {S_Out, S_Doubtful, S_Questionable, S_DayToDay, S_Probable, S_Indefinite},
        b \in BOOLEAN,
        n \in {3, 8, 10} }
    \cup { <<KV("player", PStr(S_Al))>>,
           <<KV("status", PStr(S_Out)), KV("is_starter", PBool(TRUE))>> }

NotCalled == Raised("not called")

\* _compute_team_impact is called with one more record in the list
Report(r) ==
    /\ Len(injuries) < MaxRecords
    /\ injuries' = Append(injuries, r)
    /\ impact' = compute_team_impact(injuries')
    /\ UNCHANGED <<now, file, writer, got, sets, stored, lastDone, dirty>>
    /\ UNCHANGED pipeVars
    /\ UNCHANGED fnVars
    /\ UNCHANGED appVars

\* _compute_team_impact is called for a team with no injury record
Healthy ==
    /\ injuries' = <<>>
    /\ impact' = compute_team_impact(injuries')
    /\ UNCHANGED <<now, file, writer, got, sets, stored, lastDone, dirty>>
    /\ UNCHANGED pipeVars
    /\ UNCHANGED fnVars
    /\ UNCHANGED appVars

InitImpact ==
    /\ now = 0
    /\ file = NoFile
    /\ writer = [w \in Threads |-> IdleWriter]
    /\ got = NoGet
    /\ sets = 0
    /\ stored = {}
    /\ lastDone = NoSet
    /\ dirty = FALSE
    /\ injuries = <<>>
    /\ impact = NotCalled
    /\ disk = <<>>
    /\ run = NoRun
    /\ calls = 0
    /\ call = NoCall
    /\ ret = NoCall
    /\ app = NoApp
    /\ response = NoResponse

NextImpact ==
    \/ \E r \in RecordsIn : Report(r)
    \/ Healthy

SpecImpact == InitImpact /\ [][NextImpact]_vars

(***************************************************************************)
(* Claims about the aggregator, under SpecImpact.                          *)
(***************************************************************************)
Computed == impact.raised = ""

HasKeys(injs, keys) == \A i \in 1..Len(injs) : \A k \in keys : DictHas(injs[i], k)

Field(inj, key) == DictGet(inj, key, PNone).v

\* the claim's weight table, in hundredths
C7_Weight(status) ==
    CASE status = S_Out -> 100
      [] status = S_Doubtful -> 85
      [] status = S_DayToDay -> 50
      [] status = S_Questionable -> 40
      [] status = S_Probable -> 15
      [] OTHER -> 50

RECURSIVE C7_Total(_)
C7_Total(injs) ==
    IF injs = <<>> THEN 0
    ELSE Field(Head(injs), "impact_score") * C7_Weight(Field(Head(injs), "status"))
         + C7_Total(Tail(injs))

C7_Example ==
    <<InjuryRecord(S_Al, S_Questionable, FALSE, 3), InjuryRecord(S_Bo, S_Out, TRUE, 8)>>

\* C7: for every list of records that carry impact_score and status,
\* adj_em_penalty is 0.4 * sum(impact_score * weight(status)) rounded to 2
\* places (weights Out 1.0, Doubtful 0.85, Day-to-Day 0.5, Questionable 0.4,
\* Probable 0.15, anything else 0.5); Questionable 3 + Out 8 gives 9.2 and 3.68.
C7_PenaltyFormula ==
    (impact # NotCalled /\ HasKeys(injuries, {"impact_score", "status"})) =>
        /\ Computed
        /\ LET p == impact.value.adj_em_penalty
               t == C7_Total(injuries)
           IN /\ 10 * p - 5 <= 4 * t
              /\ 4 * t <= 10 * p + 5
        /\ injuries = C7_Example =>
              (C7_Total(injuries) = 920 /\ impact.value.adj_em_penalty = 368)

C7_Witness ==
    /\ injuries = C7_Example
    /\ Computed
    /\ impact.value.adj_em_penalty = 368

SeverityRank(sev) ==
    CASE sev = "none" -> 0 [] sev = "minor" -> 1 [] sev = "moderate" -> 2
      [] sev = "significant" -> 3 [] sev = "critical" -> 4

\* the lists the current one is compared with: its prefixes, and one record
\* of impact 8 in each status
C8_Others ==
    {SubSeq(injuries, 1, k) : k \in 0..Len(injuries)}
    \cup { <<InjuryRecord(S_Al, st, FALSE, 8)>> :
             st \in {S_Out, S_Doubtful, S_Questionable, S_DayToDay, S_Probable, S_Indefinite} }

\* C8: severity is a function of adj_em_penalty alone: critical iff >= 5,
\* significant iff in [2.5, 5), moderate iff in [1, 2.5), minor iff in (0, 1),
\* none otherwise; so a list with no smaller total weighted impact than
\* another has no lower severity rank.
C8_SeverityThresholds ==
    Computed =>
        LET p == impact.value.adj_em_penalty
            sev == impact.value.severity
        IN /\ sev = "critical" <=> p >= 500
           /\ sev = "significant" <=> (250 <= p /\ p < 500)
           /\ sev = "moderate" <=> (100 <= p /\ p < 250)
           /\ sev = "minor" <=> (0 < p /\ p < 100)
           /\ sev = "none" <=> p <= 0
           /\ \A o \in C8_Others :
                (/\ HasKeys(injuries, {"impact_score", "status"})
                 /\ HasKeys(o, {"impact_score", "status"})
                 /\ C7_Total(o) <= C7_Total(injuries))
                => SeverityRank(compute_team_impact(o).value.severity) <= SeverityRank(sev)

\* a penalty of exactly 5.00 (Doubtful 10 + Day-to-Day 8) is critical
C8_Witness ==
    /\ Computed
    /\ Len(injuries) = 2
    /\ impact.value.adj_em_penalty = 500
    /\ impact.value.severity = "critical"

C9_Out(inj) == DictHas(inj, "status") /\ Field(inj, "status") \in {S_Out, S_Doubtful}

C9_OutStarter(inj) ==
    C9_Out(inj) /\ DictHas(inj, "is_starter") /\ Field(inj, "is_starter") = TRUE

\* C9: out_players counts the records with status Out or Doubtful,
\* out_starters those of them with is_starter true, key_players_out is the
\* player names of the out_starters records in input order (for records that
\* carry a player), variance_boost = 0.15 out_players + 0.25 out_starters and
\* tempo_adj = -0.3 out_starters; a single Out starter gives 1, 1, 0.4, -0.3.
C9_OutCounts ==
    Computed =>
        LET v == impact.value
            outs == {i \in 1..Len(injuries) : C9_Out(injuries[i])}
            starters == SelectSeq(injuries, C9_OutStarter)
        IN /\ v.out_players = Cardinality(outs)
           /\ v.out_starters = Len(starters)
           /\ HasKeys(starters, {"player"}) =>
                 v.key_players_out = [i \in 1..Len(starters) |-> Field(starters[i], "player")]
           /\ v.variance_boost = 15 * Cardinality(outs) + 25 * Len(starters)
           /\ v.tempo_adj = 0 - 30 * Len(starters)
           /\ injuries = <<InjuryRecord(S_Al, S_Out, TRUE, 10)>> =>
                 (/\ v.out_starters = 1 /\ v.out_players = 1
                  /\ v.variance_boost = 40 /\ v.tempo_adj = 0 - 30)

\* a Doubtful starter after an Out non-starter: 2 out, 1 of them a starter
C9_Witness ==
    /\ Computed
    /\ injuries = <<InjuryRecord(S_Al, S_Out, FALSE, 8), InjuryRecord(S_Bo, S_Doubtful, TRUE, 10)>>
    /\ impact.value.out_players = 2
    /\ impact.value.out_starters = 1
    /\ impact.value.key_players_out = <<S_Bo>>
    /\ impact.value.variance_boost = 55

\* the summary text the claim describes, from the returned fields
C10_Text ==
    LET keys == impact.value.key_players_out
        n == impact.value.out_players - Len(keys)
        key_piece == S_KeyOut \o Join(S_CommaSpace, keys)
        others_piece == S_Plus \o StrOfNat(n) \o S_Others
    IN CASE keys # <<>> /\ n > 0 -> key_piece \o S_SemiSpace \o others_piece
         [] keys # <<>> /\ n <= 0 -> key_piece
         [] keys = <<>> /\ n > 0 -> others_piece
         [] OTHER -> S_MinorOnly

\* C10 as stated: for every list, the empty one included, the summary is the
\* two optional pieces joined by "; ", or "Minor injuries only" with neither.
C10_SummaryEveryList == Computed => impact.value.summary = C10_Text

\* C10, amended: for every non-empty list the summary is "Key out: <names
\* joined by ', '>" when key_players_out is non-empty and "+<n> others
\* out/doubtful" with n = out_players - len(key_players_out) when n > 0,
\* joined by "; ", or "Minor injuries only" with neither piece; for the empty
\* list the summary is "Fully healthy".
C10_SummaryNonEmpty ==
    Computed =>
        /\ injuries # <<>> => impact.value.summary = C10_Text
        /\ injuries = <<>> => impact.value.summary = S_FullyHealthy

\* both pieces are present: one starter out, one more player out
C10_Witness ==
    /\ Computed
    /\ impact.value.key_players_out = <<S_Al>>
    /\ impact.value.out_players = 2
    /\ impact.value.summary = S_KeyOut \o S_Al \o S_SemiSpace \o S_Plus \o <<"1">> \o S_Others

\* C11: aggregating an empty record list yields severity "none", every
\* numeric field zero (adj_em_penalty, variance_boost, tempo_adj,
\* out_starters, out_players, total_impact_score) and an empty
\* key_players_out.
C11_EmptyListIsNeutral ==
    (impact # NotCalled /\ injuries = <<>>) =>
        /\ Computed
        /\ impact.value.severity = "none"
        /\ \A f \in {"adj_em_penalty", "variance_boost", "tempo_adj", "out_starters",
                     "out_players", "total_impact_score"} : impact.value[f] = 0
        /\ impact.value.key_players_out = <<>>

C11_Witness ==
    /\ injuries = <<>>
    /\ Computed
    /\ impact.value.severity = "none"

(***************************************************************************)
(* The request handlers run one at a time against the cache directory.     *)
(* SpecPipeline gives them the replies a language model can make, with     *)
(* few feed outcomes; SpecFetch gives them every feed outcome, with few    *)
(* replies.                                                                *)
(***************************************************************************)
MaxCalls == 2

TeamNames == {S_Kansas}
Matchups == {<<S_Duke, S_Kansas>>}

CacheKeys ==
    {CacheKeyAll} \cup {CacheKeyTeam(team) : team \in TeamNames}
    \cup {CacheKeyMatchup(m[1], m[2]) : m \in Matchups}

\* replies of the language model, as the text of response.content[0].text
ReplyProse == 
    <<Word(<<"S", "o", "r", "r", "y">>), Sym(","), Word(<<"I">>),
      Word(<<"c", "o", "u", "l", "d">>), Word(<<"n", "o", "t">>), Word(<<"f", "i", "n", "d">>),
      Word(<<"a", "n", "y">>), Word(<<"i", "n", "j", "u", "r", "i", "e", "s", ".">>)>>
ReplyObject == 
    <<Sym("{"), Key("error"), StrLit(<<"n", "o", "n", "e">>), Sym("}")>>
ReplyEmpty == 
    <<Sym("["), Sym("]")>>
ReplyGood ==
    <<Fence, Word(<<"j", "s", "o", "n">>), Sym("["), Sym("{"), Key("team"),
      StrLit(<<"K", "a", "n", "s", "a", "s">>), Sym(","), Key("player"),
      StrLit(<<"B", "o", " ", "L", "i">>), Sym(","), Key("status"), StrLit(<<"O", "u", "t">>),
      Sym(","), Key("is_starter"), Sym("true"), Sym(","), Key("impact_score"), IntLit(8),
      Sym("}"), Sym(","), Sym("{"), Key("team"), StrLit(<<"D", "u", "k", "e">>), Sym(","),
      Key("player"), StrLit(<<"C", "o", "o", "p", "e", "r", " ", "F", "l", "a", "g", "g">>),
      Sym(","), Key("status"),
      StrLit(<<"Q", "u", "e", "s", "t", "i", "o", "n", "a", "b", "l", "e">>), Sym(","),
      Key("is_starter"), Sym("false"), Sym(","), Key("impact_score"), IntLit(5), Sym("}"),
      Sym("]"), Fence>>
ReplyOtherTeams ==
    <<Sym("["), Sym("{"), Key("team"), StrLit(<<"A", "r", "k", "a", "n", "s", "a", "s">>),
      Sym(","), Key("player"), StrLit(<<"A", "l">>), Sym(","), Key("status"),
      StrLit(<<"O", "u", "t">>), Sym(","), Key("is_starter"), Sym("true"), Sym(","),
      Key("impact_score"), IntLit(6), Sym("}"), Sym(","), Sym("{"), Key("team"),
      StrLit(<<"K", "a", "n", "s", "a", "s", " ", "S", "t", "a", "t", "e">>), Sym(","),
      Key("player"), StrLit(<<"B", "o", " ", "L", "i">>), Sym(","), Key("status"),
      StrLit(<<"D", "o", "u", "b", "t", "f", "u", "l">>), Sym(","), Key("is_starter"),
      Sym("true"), Sym(","), Key("impact_score"), IntLit(7), Sym("}"), Sym("]")>>
ReplyTeamNumber ==
    <<Sym("["), Sym("{"), Key("team"), IntLit(5), Sym(","), Key("player"),
      StrLit(<<"B", "o", " ", "L", "i">>), Sym(","), Key("status"), StrLit(<<"O", "u", "t">>),
      Sym(","), Key("is_starter"), Sym("true"), Sym(","), Key("impact_score"), IntLit(8),
      Sym("}"), Sym("]")>>
ReplyTeamNull ==
    <<Sym("["), Sym("{"), Key("team"), Sym("null"), Sym(","), Key("player"),
      StrLit(<<"B", "o", " ", "L", "i">>), Sym(","), Key("status"), StrLit(<<"O", "u", "t">>),
      Sym(","), Key("is_starter"), Sym("true"), Sym(","), Key("impact_score"), IntLit(8),
      Sym("}"), Sym(","), Sym("{"), Key("player"), StrLit(<<"A", "l">>), Sym(","),
      Key("status"), StrLit(<<"O", "u", "t">>), Sym("}"), Sym("]")>>
ReplyPlayerNull ==
    <<Sym("["), Sym("{"), Key("team"), StrLit(<<"K", "a", "n", "s", "a", "s">>), Sym(","),
      Key("player"), Sym("null"), Sym(","), Key("status"), StrLit(<<"O", "u", "t">>), Sym(","),
      Key("is_starter"), Sym("true"), Sym(","), Key("impact_score"), IntLit(8), Sym("}"),
      Sym("]")>>
ReplyPlayerMissing ==
    <<Sym("["), Sym("{"), Key("team"), StrLit(<<"K", "a", "n", "s", "a", "s">>), Sym(","),
      Key("status"), StrLit(<<"O", "u", "t">>), Sym(","), Key("is_starter"), Sym("true"),
      Sym(","), Key("impact_score"), IntLit(8), Sym("}"), Sym("]")>>
ReplyScoreText ==
    <<Sym("["), Sym("{"), Key("team"), StrLit(<<"K", "a", "n", "s", "a", "s">>), Sym(","),
      Key("player"), StrLit(<<"B", "o", " ", "L", "i">>), Sym(","), Key("status"),
      StrLit(<<"O", "u", "t">>), Sym(","), Key("is_starter"), Sym("true"), Sym(","),
      Key("impact_score"), StrLit(<<"h", "i", "g", "h">>), Sym("}"), Sym("]")>>
ReplyScoreNull ==
    <<Sym("["), Sym("{"), Key("team"), StrLit(<<"K", "a", "n", "s", "a", "s">>), Sym(","),
      Key("player"), StrLit(<<"B", "o", " ", "L", "i">>), Sym(","), Key("status"),
      StrLit(<<"Q", "u", "e", "s", "t", "i", "o", "n", "a", "b", "l", "e">>), Sym(","),
      Key("is_starter"), Sym("false"), Sym(","), Key("impact_score"), Sym("null"), Sym("}"),
      Sym("]")>>
ReplyNumbers ==
    <<Sym("["), IntLit(7), Sym(","), IntLit(8), Sym("]")>>
ReplyBothHurt ==
    <<Sym("["), Sym("{"), Key("team"), StrLit(<<"D", "u", "k", "e">>), Sym(","), Key("player"),
      StrLit(<<"A", "l">>), Sym(","), Key("status"), StrLit(<<"O", "u", "t">>), Sym(","),
      Key("is_starter"), Sym("false"), Sym(","), Key("impact_score"), IntLit(5), Sym("}"),
      Sym(","), Sym("{"), Key("team"), StrLit(<<"K", "a", "n", "s", "a", "s">>), Sym(","),
      Key("player"), StrLit(<<"B", "o", " ", "L", "i">>), Sym(","), Key("status"),
      StrLit(<<"O", "u", "t">>), Sym(","), Key("is_starter"), Sym("true"), Sym(","),
      Key("impact_score"), IntLit(10), Sym("}"), Sym(","), Sym("{"), Key("team"),
      StrLit(<<"K", "a", "n", "s", "a", "s">>), Sym(","), Key("player"), StrLit(<<"C", "y">>),
      Sym(","), Key("status"), StrLit(<<"D", "a", "y", "-", "t", "o", "-", "D", "a", "y">>),
      Sym(","), Key("is_starter"), Sym("false"), Sym(","), Key("impact_score"), IntLit(5),
      Sym("}"), Sym("]")>>
ReplyScoreLarge ==
    <<Word(<<"H", "e", "r", "e">>), Word(<<"y", "o", "u">>), Word(<<"g", "o", ":">>), Sym("["),
      Sym("{"), Key("team"), StrLit(<<"K", "a", "n", "s", "a", "s">>), Sym(","), Key("player"),
      StrLit(<<"B", "o", " ", "L", "i">>), Sym(","), Key("status"), StrLit(<<"O", "u", "t">>),
      Sym(","), Key("is_starter"), Sym("true"), Sym(","), Key("impact_score"), IntLit(15),
      Sym("}"), Sym("]")>>

ReplyStrayUnnamed ==
    <<Sym("["), Sym("{"), Key("team"), StrLit(<<"A", "r", "k", "a", "n", "s", "a", "s">>),
      Sym(","), Key("player"), StrLit(<<>>), Sym(","), Key("status"),
      StrLit(<<"O", "u", "t">>), Sym(","), Key("is_starter"), Sym("false"), Sym(","),
      Key("impact_score"), IntLit(4), Sym("}"), Sym(","), Sym("{"), Key("team"),
      StrLit(<<"K", "a", "n", "s", "a", "s">>), Sym(","), Key("player"),
      StrLit(<<"B", "o", " ", "L", "i">>), Sym(","), Key("status"),
      StrLit(<<"O", "u", "t">>), Sym(","), Key("is_starter"), Sym("true"), Sym(","),
      Key("impact_score"), IntLit(8), Sym("}"), Sym("]")>>

ModelOutcomes ==
    {ModelFailed("APIError")} \cup
    {ModelReplied(text) : text \in
        {ReplyProse, ReplyObject, ReplyEmpty, ReplyGood, ReplyOtherTeams, ReplyTeamNumber,
         ReplyTeamNull, ReplyPlayerNull, ReplyPlayerMissing, ReplyScoreText,
         ReplyScoreNull, ReplyNumbers, ReplyScoreLarge, ReplyBothHurt}}

\* the inputs of SpecPipeline and of SpecFetch
PipelineInputs ==
    [espn |-> {"down", "kansas"},
     google |-> {"timeout", "recent"},
     llm |-> ModelOutcomes]

FetchInputs ==
    [espn |-> DOMAIN EspnFeeds,
     google |-> DOMAIN GoogleFeeds,
     llm |-> {ModelReplied(ReplyEmpty)}]

\* the handler has run
Handled(done) ==
    /\ run' = done.run
    /\ disk' = done.disk
    /\ UNCHANGED now
    /\ UNCHANGED cacheVars
    /\ UNCHANGED impactVars
    /\ UNCHANGED fnVars
    /\ UNCHANGED appVars

\* a request for all injuries
GetAllInjuries(force, espn, llm) ==
    /\ run = NoRun
    /\ calls < MaxCalls
    /\ calls' = calls + 1
    /\ Handled(get_all_injuries(disk, now, force, espn, llm))

\* a request for one team's injuries
GetTeamInjuries(team_name, force, google, espn, llm) ==
    /\ run = NoRun
    /\ calls < MaxCalls
    /\ calls' = calls + 1
    /\ Handled(get_team_injuries(disk, now, team_name, force, google, espn, llm))

\* a request for a matchup
GetMatchupInjuries(team1, team2, espn, google1, google2, llm) ==
    /\ run = NoRun
    /\ calls < MaxCalls
    /\ calls' = calls + 1
    /\ Handled(get_matchup_injuries(disk, now, team1, team2, espn, google1, google2, llm))

\* the caller has taken the response
Return ==
    /\ run # NoRun
    /\ run' = NoRun
    /\ UNCHANGED <<now, disk, calls>>
    /\ UNCHANGED cacheVars
    /\ UNCHANGED impactVars
    /\ UNCHANGED fnVars
    /\ UNCHANGED appVars

\* more than the matchup TTL passes before the next request
Wait ==
    /\ now + MatchupTTL + 1 <= MaxClock
    /\ now' = now + MatchupTTL + 1
    /\ run' = NoRun
    /\ UNCHANGED <<disk, calls>>
    /\ UNCHANGED cacheVars
    /\ UNCHANGED impactVars
    /\ UNCHANGED fnVars
    /\ UNCHANGED appVars

InitPipeline ==
    /\ now = 0
    /\ file = NoFile
    /\ writer = [w \in Threads |-> IdleWriter]
    /\ got = NoGet
    /\ sets = 0
    /\ stored = {}
    /\ lastDone = NoSet
    /\ dirty = FALSE
    /\ injuries = <<>>
    /\ impact = NotCalled
    /\ disk = [k \in CacheKeys |-> NoFile]
    /\ run = NoRun
    /\ calls = 0
    /\ call = NoCall
    /\ ret = NoCall
    /\ app = NoApp
    /\ response = NoResponse

NextPipeline ==
    \/ \E force \in BOOLEAN, espn \in PipelineInputs.espn, llm \in PipelineInputs.llm :
          GetAllInjuries(force, espn, llm)
    \/ \E team \in TeamNames, force \in BOOLEAN, google \in PipelineInputs.google,
          espn \in PipelineInputs.espn, llm \in PipelineInputs.llm :
          GetTeamInjuries(team, force, google, espn, llm)
    \/ \E m \in Matchups, espn \in PipelineInputs.espn, google1 \in PipelineInputs.google,
          google2 \in PipelineInputs.google, llm \in PipelineInputs.llm :
          GetMatchupInjuries(m[1], m[2], espn, google1, google2, llm)
    \/ Return
    \/ Wait

SpecPipeline == InitPipeline /\ [][NextPipeline]_vars

NextFetch ==
    \/ \E force \in BOOLEAN, espn \in FetchInputs.espn, llm \in FetchInputs.llm :
          GetAllInjuries(force, espn, llm)
    \/ \E team \in TeamNames, force \in BOOLEAN, google \in FetchInputs.google,
          espn \in FetchInputs.espn, llm \in FetchInputs.llm :
          GetTeamInjuries(team, force, google, espn, llm)
    \/ \E m \in Matchups, espn \in FetchInputs.espn, google1 \in FetchInputs.google,
          google2 \in FetchInputs.google, llm \in FetchInputs.llm :
          GetMatchupInjuries(m[1], m[2], espn, google1, google2, llm)
    \/ Return
    \/ Wait

SpecFetch == InitPipeline /\ [][NextFetch]_vars

(***************************************************************************)
(* Claims on the three operations under SpecPipeline.                      *)
(***************************************************************************)
\* the replies that are not JSON, are JSON that is not a list, or are a list
\* whose records have a missing, null or wrongly typed team, player or score
MalformedReplies ==
    {ReplyProse, ReplyObject, ReplyNumbers, ReplyTeamNumber, ReplyTeamNull,
     ReplyPlayerNull, ReplyPlayerMissing, ReplyScoreText, ReplyScoreNull}

\* the run asked the language model and was handed a malformed reply
MalformedRun == run.op # "none" /\ run.llm.ok /\ run.llm.text \in MalformedReplies

\* C1: malformed language-model output never makes get_all_injuries,
\* get_team_injuries or get_matchup_injuries raise: whenever the reply of a
\* run is not JSON, not a list, or a list of records with missing, null or
\* wrongly typed fields, no error is propagated to the caller.
C1_MalformedNeverRaises == MalformedRun => run.raised = ""

\* the fetch of the run produced news: articles for the language model to
\* read, for a matchup an item of any of its three feeds
NewsFound ==
    IF run.op = "matchup"
    THEN \/ fetch_espn_news(EspnFeeds[run.espn]).value # <<>>
         \/ \E i \in 1..Len(run.google) :
               fetch_google_news(GoogleFeeds[run.google[i]], 10, now).value # <<>>
    ELSE run.articles # <<>>

\* C3: a cache entry is created or overwritten only after a successful fetch
\* and a successful extraction: in every run of the three operations
\* InjuryCache.set is not called when the fetch produced no news or when the
\* language-model call failed.
C3_SetOnlyAfterSuccess == run.set_called => (run.llm.ok /\ NewsFound)

(***************************************************************************)
(* Claims on the feed calls under SpecFetch.                               *)
(***************************************************************************)
\* a feed call of the run failed in transport
FeedCallFailed ==
    /\ run.op # "none"
    /\ \/ run.espn # NoFeed /\ ~EspnFeeds[run.espn].ok
       \/ \E i \in 1..Len(run.google) : ~GoogleFeeds[run.google[i]].ok

\* the items the ESPN call of the run handed back, none when the call failed
SucceededEspn ==
    IF EspnFeeds[run.espn].ok THEN fetch_espn_news(EspnFeeds[run.espn]).value ELSE <<>>

\* the items the i-th Google call of the run handed back, none when it failed
SucceededGoogle(i, max_results) ==
    IF GoogleFeeds[run.google[i]].ok
    THEN fetch_google_news(GoogleFeeds[run.google[i]], max_results, now).value
    ELSE <<>>

\* what fetch_matchup_news handed get_matchup_injuries in the run
NewsOfRun ==
    fetch_matchup_news(EspnFeeds[run.espn], GoogleFeeds[run.google[1]],
                       GoogleFeeds[run.google[2]], run.teams[1], run.teams[2], now)

\* every item of items is among the articles
AllAmong(items, articles) ==
    \A i \in 1..Len(items) : \E j \in 1..Len(articles) : articles[j] = items[i]

\* every line of every item is in the text
AllLinesIn(item_lines, text) ==
    \A i \in 1..Len(item_lines) : Contains(text, item_lines[i])

\* C2 as stated: a transport failure of a feed call is never propagated; the
\* failing feed contributes an empty list and every item of the feeds that
\* succeeded appears in the output of fetch_matchup_news and in the article
\* set used by get_team_injuries.
C2_SucceededItemsAppear ==
    FeedCallFailed =>
        /\ run.raised = ""
        /\ run.op = "team" =>
              /\ AllAmong(SucceededEspn, run.articles)
              /\ AllAmong(SucceededGoogle(1, 15), run.articles)
        /\ run.op = "matchup" =>
              /\ NewsOfRun.raised = ""
              /\ AllLinesIn(Concat([i \in 1..Len(SucceededEspn) |->
                                       EspnLines(SucceededEspn[i])]),
                            NewsOfRun.value)
              /\ \A g \in 1..2 :
                    AllLinesIn([i \in 1..Len(SucceededGoogle(g, 10)) |->
                                   GoogleLine(SucceededGoogle(g, 10)[i])],
                               NewsOfRun.value)

\* C2: a transport failure (connection error, timeout, HTTP error status) of
\* a feed call is never propagated to the caller and the failing feed
\* contributes an empty list: the output of fetch_matchup_news is the first
\* 6000 characters of the text built from the items of the feeds that
\* succeeded, and the article set used by get_team_injuries is the ESPN items
\* that mention the team followed by all items of the team's search feed.
C2_FailedFeedIsEmpty ==
    FeedCallFailed =>
        /\ run.raised = ""
        /\ run.op = "team" =>
              run.articles = EspnFiltered(SucceededEspn, Lower(run.teams[1]))
                             \o SucceededGoogle(1, 15)
        /\ run.op = "matchup" =>
              NewsOfRun = Returned(Prefix(MatchupText(SucceededEspn, SucceededGoogle(1, 10),
                                                      SucceededGoogle(2, 10),
                                                      run.teams[1], run.teams[2]),
                                          MatchupTextBudget))

\* a matchup whose ESPN call ended in an HTTP error status while the search
\* feed of its first team replied: the reply's item is in the news text
C2_Witness ==
    /\ run.op = "matchup"
    /\ run.raised = ""
    /\ EspnFeeds[run.espn] = FeedFailed("HTTPError")
    /\ SucceededGoogle(1, 10) # <<>>
    /\ Contains(NewsOfRun.value, GoogleLine(SucceededGoogle(1, 10)[1]))

(***************************************************************************)
(* Claims on the results of the three operations, under SpecPipeline.      *)
(***************************************************************************)
\* the run is a get_matchup_injuries that handed its caller a result
MatchupReturned == run.op = "matchup" /\ run.raised = ""

\* the adj_em_penalty of the result's team1_impact or team2_impact
PenaltyIn(result, key) == DictGet(result, key, FullyHealthy).adj_em_penalty

\* C12: every result of get_matchup_injuries has net_injury_edge =
\* round(team2_impact.adj_em_penalty - team1_impact.adj_em_penalty, 2) for
\* the two impact summaries of that same result (penalties 2.0 and 5.0 give
\* 3.0), so it is positive exactly when team2 is the more hurt team.
C12_NetEdge ==
    MatchupReturned =>
        LET edge == DictGet(run.result, "net_injury_edge", 0)
            p1 == PenaltyIn(run.result, "team1_impact")
            p2 == PenaltyIn(run.result, "team2_impact")
        IN /\ DictHas(run.result, "net_injury_edge")
           /\ edge = p2 - p1
           /\ (edge > 0) <=> (p2 > p1)
           /\ (p1 = 200 /\ p2 = 500) => edge = 300

C12_Witness ==
    /\ MatchupReturned
    /\ ~run.hit
    /\ PenaltyIn(run.result, "team1_impact") = 200
    /\ PenaltyIn(run.result, "team2_impact") = 500
    /\ DictGet(run.result, "net_injury_edge", 0) = 300

(***************************************************************************)
(* SpecTeamMatch: _team_match applied to pairs of names.                   *)
(***************************************************************************)
S_IowaSt == <<"I", "o", "w", "a", " ", "S", "t", ".">>
S_IowaState == <<"I", "o", "w", "a", " ", "S", "t", "a", "t", "e">>

\* the names a reply can hold under "team" and a caller can ask for
NamesIn ==
    {<<>>,
     <<" ">>,
     <<"K", "a", "n", "s", "a", "s">>,
     <<"k", "a", "n", "s", "a", "s", " ">>,
     <<"A", "r", "k", "a", "n", "s", "a", "s">>,
     <<"K", "a", "n", "s", "a", "s", " ", "S", "t", "a", "t", "e">>,
     <<"I", "o", "w", "a", " ", "S", "t", ".">>,
     <<"I", "o", "w", "a", " ", "S", "t", "a", "t", "e">>,
     <<"U", "C", "o", "n", "n">>,
     <<"C", "o", "n", "n", "e", "c", "t", "i", "c", "u", "t">>,
     <<"S", "t", ".", " ", "J", "o", "h", "n", "'", "s">>,
     <<"S", "t", " ", "J", "o", "h", "n", "s">>,
     <<"D", "u", "k", "e">>,
     <<"D", "u", "k">>,
     <<".">>}

\* self._team_match(scraped_name, target_name)
TeamMatch(scraped_name, target_name) ==
    /\ call' = [fn |-> "_team_match", args |-> <<scraped_name, target_name>>]
    /\ ret' = team_match(PStr(scraped_name), target_name)
    /\ UNCHANGED now
    /\ UNCHANGED cacheVars
    /\ UNCHANGED impactVars
    /\ UNCHANGED pipeVars
    /\ UNCHANGED appVars

InitTeamMatch ==
    /\ now = 0
    /\ file = NoFile
    /\ writer = [w \in Threads |-> IdleWriter]
    /\ got = NoGet
    /\ sets = 0
    /\ stored = {}
    /\ lastDone = NoSet
    /\ dirty = FALSE
    /\ injuries = <<>>
    /\ impact = NotCalled
    /\ disk = <<>>
    /\ run = NoRun
    /\ calls = 0
    /\ call = NoCall
    /\ ret = NoCall
    /\ app = NoApp
    /\ response = NoResponse

NextTeamMatch == \E scraped_name \in NamesIn, target_name \in NamesIn :
                    TeamMatch(scraped_name, target_name)

SpecTeamMatch == InitTeamMatch /\ [][NextTeamMatch]_vars

\* _team_match has been called
Matched == call # NoCall /\ call.fn = "_team_match"

\* the name with periods and apostrophes removed, then "st " expanded to
\* "state ", then "uconn" to "connecticut"
C13_Normalized(name) ==
    LET no_periods == Replace(name, <<".">>, <<>>)
        no_apostrophes == Replace(no_periods, <<"'">>, <<>>)
        state == Replace(no_apostrophes, <<"s", "t", " ">>, <<"s", "t", "a", "t", "e", " ">>)
    IN Replace(state, <<"u", "c", "o", "n", "n">>, <<"c", "o", "n", "n", "e", "c", "t", "i", "c", "u", "t">>)

\* a is the first Len(a) characters of b
C13_IsPrefix(a, b) == \E n \in 0..Len(b) : a = SubSeq(b, 1, n)

\* C13: _team_match(scraped, target) is true exactly when both names are
\* non-empty and (a) they are equal after case-folding and trimming, or (b)
\* they are equal after removing periods and apostrophes and expanding "st "
\* to "state " and "uconn" to "connecticut", or (c) the normalized target has
\* length >= 5 and one normalized name is a prefix of the other; "Kansas"
\* never matches "Arkansas" and "Iowa St." matches "Iowa State", in either
\* direction.
C13_TeamMatchExactly ==
    Matched =>
        LET scraped == call.args[1]
            target == call.args[2]
            s == Strip(Lower(scraped))
            t == Strip(Lower(target))
            sn == C13_Normalized(s)
            tn == C13_Normalized(t)
        IN /\ ret.raised = ""
           /\ ret.value <=>
                 /\ scraped # <<>>
                 /\ target # <<>>
                 /\ \/ s = t
                    \/ sn = tn
                    \/ Len(tn) >= 5 /\ (C13_IsPrefix(sn, tn) \/ C13_IsPrefix(tn, sn))
           /\ {scraped, target} = {S_Kansas, S_Arkansas} => ~ret.value
           /\ {scraped, target} = {S_IowaSt, S_IowaState} => ret.value

\* "St. John's" has been matched against "St Johns": equal once normalized
C13_Witness ==
    /\ Matched
    /\ call.args = <<<<"S", "t", ".", " ", "J", "o", "h", "n", "'", "s">>, <<"S", "t", " ", "J", "o", "h", "n", "s">>>>
    /\ ret = Returned(TRUE)

(***************************************************************************)
(* SpecStars: get_star_player applied to names made from the keys of       *)
(* STAR_PLAYERS, and _apply_star_overrides applied to short record lists.  *)
(***************************************************************************)
MaxOverrideRecords == 2

\* key.split()[-1]
LastWord(key) == Split(key)[Len(Split(key))]

\* the first initial of a key, a period, a space and the key's last word
InitialAndLast(key) == <<key[1], ".", " ">> \o LastWord(key)

StarKeys == {STAR_PLAYERS[i].player : i \in 1..Len(STAR_PLAYERS)}

\* the names looked up: the keys, the keys in lower case, their last words
\* alone, initial and last word, a name of no entry, and blank names
QueriesIn ==
    StarKeys
    \cup {Lower(key) : key \in StarKeys}
    \cup {LastWord(key) : key \in StarKeys}
    \cup {InitialAndLast(key) : key \in StarKeys}
    \cup {<<"B", "o", " ", "L", "i">>, <<>>, <<" ">>}

RecordFlagg ==
    PDict(<<KV("team", PStr(<<"D", "u", "k", "e">>)),
            KV("player", PStr(<<"C", "o", "o", "p", "e", "r", " ", "F", "l", "a", "g", "g">>)),
            KV("status", PStr(<<"O", "u", "t">>)),
            KV("is_starter", PBool(FALSE)),
            KV("impact_score", PInt(5))>>)
RecordBoLi ==
    PDict(<<KV("team", PStr(<<"K", "a", "n", "s", "a", "s">>)),
            KV("player", PStr(<<"B", "o", " ", "L", "i">>)),
            KV("status", PStr(<<"O", "u", "t">>)),
            KV("is_starter", PBool(TRUE)),
            KV("impact_score", PInt(8))>>)
RecordInitialToppin ==
    PDict(<<KV("player", PStr(<<"J", ".", " ", "T", "o", "p", "p", "i", "n">>)),
            KV("status", PStr(<<"D", "o", "u", "b", "t", "f", "u", "l">>))>>)
RecordToppin ==
    PDict(<<KV("team", PStr(<<"K", "a", "n", "s", "a", "s">>)),
            KV("player", PStr(<<"T", "o", "p", "p", "i", "n">>)),
            KV("status", PStr(<<"Q", "u", "e", "s", "t", "i", "o", "n", "a", "b", "l", "e">>)),
            KV("is_starter", PBool(FALSE)),
            KV("impact_score", PInt(3))>>)
RecordUnnamed ==
    PDict(<<KV("team", PStr(<<"K", "a", "n", "s", "a", "s">>)),
            KV("status", PStr(<<"O", "u", "t">>)),
            KV("is_starter", PBool(TRUE)),
            KV("impact_score", PInt(8))>>)
RecordBlank ==
    PDict(<<KV("team", PStr(<<"K", "a", "n", "s", "a", "s">>)),
            KV("player", PStr(<<" ">>)),
            KV("status", PStr(<<"O", "u", "t">>)),
            KV("is_starter", PBool(TRUE)),
            KV("impact_score", PInt(8))>>)

RecordNamesake ==
    PDict(<<KV("team", PStr(<<"K", "a", "n", "s", "a", "s">>)),
            KV("player", PStr(<<"C", "h", "r", "i", "s", " ", "F", "l", "a", "g", "g">>)),
            KV("status", PStr(<<"O", "u", "t">>)),
            KV("is_starter", PBool(FALSE)),
            KV("impact_score", PInt(3))>>)

RecordsToOverride ==
    {RecordFlagg, RecordBoLi, RecordInitialToppin, RecordToppin, RecordUnnamed, RecordBlank,
     RecordNamesake}

\* get_star_player(player_name)
GetStarPlayer(player_name) ==
    /\ call = NoCall
    /\ call' = [fn |-> "get_star_player", args |-> <<player_name>>]
    /\ ret' = get_star_player(PStr(player_name))
    /\ UNCHANGED now
    /\ UNCHANGED cacheVars
    /\ UNCHANGED impactVars
    /\ UNCHANGED pipeVars
    /\ UNCHANGED appVars

\* self._apply_star_overrides(injuries)
ApplyStarOverrides(injs) ==
    /\ call = NoCall
    /\ call' = [fn |-> "_apply_star_overrides", args |-> <<injs>>]
    /\ ret' = apply_star_overrides(injs)
    /\ UNCHANGED now
    /\ UNCHANGED cacheVars
    /\ UNCHANGED impactVars
    /\ UNCHANGED pipeVars
    /\ UNCHANGED appVars

\* the caller has taken what the call returned
Resume ==
    /\ call # NoCall
    /\ call' = NoCall
    /\ ret' = NoCall
    /\ UNCHANGED now
    /\ UNCHANGED cacheVars
    /\ UNCHANGED impactVars
    /\ UNCHANGED pipeVars
    /\ UNCHANGED appVars

InitStars ==
    /\ now = 0
    /\ file = NoFile
    /\ writer = [w \in Threads |-> IdleWriter]
    /\ got = NoGet
    /\ sets = 0
    /\ stored = {}
    /\ lastDone = NoSet
    /\ dirty = FALSE
    /\ injuries = <<>>
    /\ impact = NotCalled
    /\ disk = <<>>
    /\ run = NoRun
    /\ calls = 0
    /\ call = NoCall
    /\ ret = NoCall
    /\ app = NoApp
    /\ response = NoResponse

NextStars ==
    \/ \E player_name \in QueriesIn : GetStarPlayer(player_name)
    \/ \E n \in 0..MaxOverrideRecords : \E injs \in [1..n -> RecordsToOverride] :
          ApplyStarOverrides(injs)
    \/ Resume

SpecStars == InitStars /\ [][NextStars]_vars

(***************************************************************************)
(* Claims on the player lookup, under SpecStars.                           *)
(***************************************************************************)
\* get_star_player has been called with the name query
LookedUp == call # NoCall /\ call.fn = "get_star_player"

\* C14: get_star_player resolves a name in strict precedence, an exact key
\* first, otherwise a case-insensitive exact key, and a last-name match with
\* the first initial only when neither exists: a query that equals a table
\* key up to letter case resolves to that key's entry, never to another
\* player who shares the last name and first initial.
C14_CaseInsensitiveBeforeLastName ==
    LookedUp =>
        \A key \in StarKeys :
            Lower(key) = Lower(call.args[1]) =>
                /\ ret.raised = ""
                /\ ret.found
                /\ ret.star.player = key

C15_Namesakes(last, initial) ==
    {key \in StarKeys : LastWord(key) = last /\ LowerChar(key[1]) = LowerChar(initial)}

OverridesReturned ==
    call # NoCall /\ call.fn = "_apply_star_overrides" /\ ret.raised = ""

\* the keys of a dict
KeysOf(d) == {d[i].key : i \in 1..Len(d)}

\* the dict has the same entry under key, or none, in before and after
SameField(before, after, key) ==
    /\ DictHas(before, key) <=> DictHas(after, key)
    /\ DictGet(before, key, PNone).ty = DictGet(after, key, PNone).ty
    /\ DictGet(before, key, PNone) = DictGet(after, key, PNone)

\* the dict holds val under key
FieldIs(d, key, val) ==
    /\ DictHas(d, key)
    /\ DictGet(d, key, val).ty = val.ty
    /\ DictGet(d, key, val) = val

\* C16: for every record passed through _apply_star_overrides: if its player
\* resolves in the table, impact_score is the entry's impact, is_starter is
\* (tier in {superstar, star, key_star, starter}) and star_verified is true;
\* otherwise star_verified is false and the model's impact_score and
\* is_starter are as they were.  No other field of the record is changed.
C16_OverrideRule ==
    OverridesReturned =>
        /\ Len(ret.value) = Len(call.args[1])
        /\ \A i \in 1..Len(ret.value) :
              LET before == call.args[1][i].v
                  after == ret.value[i].v
                  star == get_star_player(DictGet(before, "player", PStr(<<>>)))
              IN /\ star.found =>
                       /\ FieldIs(after, "impact_score", PInt(star.star.impact))
                       /\ FieldIs(after, "is_starter",
                               PBool(star.star.tier \in {"superstar", "star", "key_star",
                                                          "starter"}))
                       /\ FieldIs(after, "star_verified", PBool(TRUE))
                 /\ ~star.found =>
                       /\ FieldIs(after, "star_verified", PBool(FALSE))
                       /\ SameField(before, after, "impact_score")
                       /\ SameField(before, after, "is_starter")
                 /\ KeysOf(after) \subseteq
                       KeysOf(before) \cup {"impact_score", "is_starter", "star_verified"}
                 /\ \A key \in KeysOf(before) \ {"impact_score", "is_starter",
                                                 "star_verified"} :
                       SameField(before, after, key)

\* Cooper Flagg, scored 5 and not a starter by the model, and Bo Li, of no
\* entry, have gone through the pass together
C16_Witness ==
    /\ OverridesReturned
    /\ call.args[1] = <<RecordFlagg, RecordBoLi>>
    /\ FieldIs(ret.value[1].v, "impact_score", PInt(10))
    /\ FieldIs(ret.value[1].v, "is_starter", PBool(TRUE))
    /\ FieldIs(ret.value[2].v, "star_verified", PBool(FALSE))
    /\ FieldIs(ret.value[2].v, "impact_score", PInt(8))

(***************************************************************************)
(* Claims on the records the three operations return, under SpecPipeline.  *)
(***************************************************************************)
\* the list the result holds under key, empty when it holds none
ListIn(result, key) == IF DictHas(result, key) THEN DictGet(result, key, PNone).v ELSE <<>>

\* the injury records of the run's result that are JSON objects
ReturnedRecords ==
    LET all == ListIn(run.result, "injuries") \o ListIn(run.result, "team1_injuries")
               \o ListIn(run.result, "team2_injuries")
        IsObject(inj) == inj.ty = "dict"
        objects == SelectSeq(all, IsObject)
    IN {objects[i].v : i \in 1..Len(objects)}

\* the run is a get_all_injuries that computed its result from a reply
AllComputed == run.op = "all" /\ ~run.hit /\ run.raised = "" /\ run.llm.ok

\* C17: get_all_injuries applies the reference override pass to its list: on
\* every fresh computation each returned record carries star_verified, and a
\* record whose player resolves in the table has the table's impact_score
\* rather than the model's.
C17_AllInjuriesOverridden ==
    AllComputed =>
        \A inj \in ReturnedRecords :
            LET star == get_star_player(DictGet(inj, "player", PStr(<<>>))) IN
            /\ DictHas(inj, "star_verified")
            /\ (star.raised = "" /\ star.found) =>
                  FieldIs(inj, "impact_score", PInt(star.star.impact))

\* the run handed its caller a result
RunReturned == run.op # "none" /\ run.raised = ""

\* C18: every injury record returned by get_all_injuries, get_team_injuries
\* or get_matchup_injuries has an integer impact_score in [1,10], whatever
\* impact_score the language model put in its reply.
C18_ImpactScoreInRange ==
    RunReturned =>
        \A inj \in ReturnedRecords :
            /\ DictHas(inj, "impact_score")
            /\ DictGet(inj, "impact_score", PNone).ty = "int"
            /\ DictGet(inj, "impact_score", PNone).v \in 1..10

(***************************************************************************)
(* SpecApp: the Flask process of app.py.  It is started with the two keys  *)
(* of its environment and then answers requests one at a time; a query     *)
(* parameter is None when the request lacks it, else its text.  call is   *)
(* the request being answered: its route and its query parameters.  The    *)
(* response keeps, next to status and body, which collaborators the        *)
(* handler called.                                                         *)
(***************************************************************************)
Http(status, body, called) == [status |-> status, body |-> body, called |-> called]

\* str(e) of the exception a handler caught
ErrorText(exc) == [ty |-> "error", v |-> exc]

S_Date == <<"2", "0", "2", "6", "-", "0", "3", "-", "0", "1">>
S_key == <<"k", "e", "y">>
S_true == <<"t", "r", "u", "e">>
S_FeaturesOffAll == <<"I", "n", "j", "u", "r", "y", " ", "f", "e", "a", "t", "u", "r", "e", "s", " ", "n", "o", "t", " ", "a", "v", "a", "i", "l", "a", "b", "l", "e", " ", "(", "A", "N", "T", "H", "R", "O", "P", "I", "C", "_", "A", "P", "I", "_", "K", "E", "Y", " ", "n", "o", "t", " ", "s", "e", "t", ")">>
S_FeaturesOff == <<"I", "n", "j", "u", "r", "y", " ", "f", "e", "a", "t", "u", "r", "e", "s", " ", "n", "o", "t", " ", "a", "v", "a", "i", "l", "a", "b", "l", "e">>
S_DateRequired == <<"D", "a", "t", "e", " ", "p", "a", "r", "a", "m", "e", "t", "e", "r", " ", "i", "s", " ", "r", "e", "q", "u", "i", "r", "e", "d">>
S_TeamRequired == <<"t", "e", "a", "m", " ", "p", "a", "r", "a", "m", "e", "t", "e", "r", " ", "i", "s", " ", "r", "e", "q", "u", "i", "r", "e", "d">>
S_TeamsRequired == <<"t", "e", "a", "m", "1", " ", "a", "n", "d", " ", "t", "e", "a", "m", "2", " ", "p", "a", "r", "a", "m", "e", "t", "e", "r", "s", " ", "a", "r", "e", " ", "r", "e", "q", "u", "i", "r", "e", "d">>
S_NA == <<"N", "/", "A">>

\* the values os.getenv gives for a key: unset, set to nothing, set
KeysIn == {Missing, Given(<<>>), Given(S_key)}

\* the environment the process is started in
Env(kenpom_key, anthropic_key) ==
    [KENPOM_API_KEY |-> kenpom_key, ANTHROPIC_API_KEY |-> anthropic_key]

Startup_InjuryKeyFatal(kenpom_key, anthropic_key) ==
    [started |-> IF Falsy(kenpom_key) \/ Falsy(anthropic_key) THEN "failed" ELSE "running",
     injury_analyzer |-> ~Falsy(kenpom_key) /\ ~Falsy(anthropic_key),
     env |-> Env(kenpom_key, anthropic_key)]

\* lines 13-24: the module is imported
Startup(kenpom_key, anthropic_key) ==
    IF Falsy(kenpom_key)
    THEN [started |-> "failed", injury_analyzer |-> FALSE,
          env |-> Env(kenpom_key, anthropic_key)]
    ELSE [started |-> "running", injury_analyzer |-> ~Falsy(anthropic_key),
          env |-> Env(kenpom_key, anthropic_key)]

\* request.args.get('force', '').lower() == 'true'
ForceOf(force) == force.present /\ Lower(force.v) = S_true

\* lines 177, 190: the stub of /api/injuries and of /api/injuries/team
DisabledStub(message) ==
    Http(200, <<KV("error", PStr(message)), KV("injuries", PList(<<>>))>>, {})

\* line 208: the impact summary of the matchup stub
NeutralImpact ==
    PDict(<<KV("adj_em_penalty", PInt(0)), KV("severity", PStr(<<"n", "o", "n", "e">>)),
            KV("summary", PStr(S_NA))>>)

\* lines 204-211: the stub of /api/injuries/matchup
DisabledMatchupStub ==
    Http(200,
         <<KV("error", PStr(S_FeaturesOff)),
           KV("team1_injuries", PList(<<>>)), KV("team2_injuries", PList(<<>>)),
           KV("team1_impact", NeutralImpact), KV("team2_impact", NeutralImpact),
           KV("net_injury_edge", PInt(0))>>,
         {})

BadRequest_AsServerError(message) == Http(500, <<KV("error", PStr(message))>>, {})

\* a validation failure
BadRequest(message) == Http(400, <<KV("error", PStr(message))>>, {})

\* lines 180-183, 194-198: the try of /api/injuries and /api/injuries/team
InjuriesAnswer(done) ==
    IF done.run.raised # ""
    THEN Http(500, <<KV("error", ErrorText(done.run.raised)), KV("injuries", PList(<<>>))>>,
              {"injury_analyzer"})
    ELSE Http(200, done.run.result, {"injury_analyzer"})

\* lines 216-220: the try of /api/injuries/matchup
MatchupAnswer(done) ==
    IF done.run.raised # ""
    THEN Http(500, <<KV("error", ErrorText(done.run.raised))>>, {"injury_analyzer"})
    ELSE Http(200, done.run.result, {"injury_analyzer"})

\* lines 128-132: the try of /api/fanmatch, the statistics provider
\* answering or failing
FanmatchAnswer(date, upstream_ok) ==
    IF upstream_ok THEN Http(200, <<KV("d", PStr(date))>>, {"client"})
    ELSE Http(500, <<KV("error", ErrorText("RequestException"))>>, {"client"})

\* the process is started
Start(kenpom_key, anthropic_key) ==
    /\ app.started = "no"
    /\ app' = Startup(kenpom_key, anthropic_key)
    /\ UNCHANGED <<now, response>>
    /\ UNCHANGED cacheVars
    /\ UNCHANGED impactVars
    /\ UNCHANGED pipeVars
    /\ UNCHANGED fnVars

\* a request arrives at the running process
Accepted(route, args) ==
    /\ app.started = "running"
    /\ response = NoResponse
    /\ calls < MaxCalls
    /\ calls' = calls + 1
    /\ call' = [fn |-> route, args |-> args]
    /\ UNCHANGED <<now, app, ret>>
    /\ UNCHANGED cacheVars
    /\ UNCHANGED impactVars

\* the handler answered without the analyzer
Direct(answer) ==
    /\ response' = answer
    /\ UNCHANGED <<disk, run>>

\* the handler answered from what the analyzer did
Analyzed(done, answer) ==
    /\ response' = answer
    /\ run' = done.run
    /\ disk' = done.disk

\* GET /api/fanmatch
RouteFanmatch(date, upstream_ok) ==
    /\ Accepted("/api/fanmatch", <<date>>)
    /\ IF Falsy(date) THEN Direct(BadRequest(S_DateRequired))
       ELSE Direct(FanmatchAnswer(date.v, upstream_ok))

\* the try of /api/injuries
InjuriesTried(done) == Analyzed(done, InjuriesAnswer(done))

\* the try of /api/injuries/matchup
MatchupTried(done) == Analyzed(done, MatchupAnswer(done))

\* GET /api/injuries
RouteInjuries(force, espn, llm) ==
    /\ Accepted("/api/injuries", <<force>>)
    /\ IF ~app.injury_analyzer THEN Direct(DisabledStub(S_FeaturesOffAll))
       ELSE InjuriesTried(get_all_injuries(disk, now, ForceOf(force), espn, llm))

\* GET /api/injuries/team
RouteInjuriesTeam(team, google, espn, llm) ==
    /\ Accepted("/api/injuries/team", <<team>>)
    /\ IF ~app.injury_analyzer THEN Direct(DisabledStub(S_FeaturesOff))
       ELSE IF Falsy(team) THEN Direct(BadRequest(S_TeamRequired))
       ELSE InjuriesTried(get_team_injuries(disk, now, team.v, FALSE, google, espn, llm))

\* GET /api/injuries/matchup
RouteInjuriesMatchup(team1, team2, espn, google1, google2, llm) ==
    /\ Accepted("/api/injuries/matchup", <<team1, team2>>)
    /\ IF ~app.injury_analyzer THEN Direct(DisabledMatchupStub)
       ELSE IF Falsy(team1) \/ Falsy(team2) THEN Direct(BadRequest(S_TeamsRequired))
       ELSE MatchupTried(get_matchup_injuries(disk, now, team1.v, team2.v, espn, google1,
                                              google2, llm))

\* the response has gone to the client
Sent ==
    /\ response # NoResponse
    /\ response' = NoResponse
    /\ run' = NoRun
    /\ call' = NoCall
    /\ UNCHANGED <<now, app, disk, calls, ret>>
    /\ UNCHANGED cacheVars
    /\ UNCHANGED impactVars

\* what SpecApp gives the handlers
AppInputs ==
    [espn |-> {"down", "kansas"},
     google |-> {"recent"},
     llm |-> {ModelFailed("APIError"), ModelReplied(ReplyGood), ModelReplied(ReplyScoreText)},
     date |-> {Missing, Given(<<>>), Given(S_Date)},
     force |-> {Missing, Given(S_true)},
     team |-> {Missing, Given(<<>>), Given(S_Kansas)},
     team1 |-> {Missing, Given(<<>>), Given(S_Duke)},
     team2 |-> {Missing, Given(<<>>), Given(S_Kansas)}]

InitApp ==
    /\ now = 0
    /\ file = NoFile
    /\ writer = [w \in Threads |-> IdleWriter]
    /\ got = NoGet
    /\ sets = 0
    /\ stored = {}
    /\ lastDone = NoSet
    /\ dirty = FALSE
    /\ injuries = <<>>
    /\ impact = NotCalled
    /\ disk = [k \in CacheKeys |-> NoFile]
    /\ run = NoRun
    /\ calls = 0
    /\ call = NoCall
    /\ ret = NoCall
    /\ app = NoApp
    /\ response = NoResponse

NextApp ==
    \/ \E kenpom_key \in KeysIn, anthropic_key \in KeysIn : Start(kenpom_key, anthropic_key)
    \/ \E date \in AppInputs.date, upstream_ok \in BOOLEAN : RouteFanmatch(date, upstream_ok)
    \/ \E force \in AppInputs.force, espn \in AppInputs.espn, llm \in AppInputs.llm :
          RouteInjuries(force, espn, llm)
    \/ \E team \in AppInputs.team, google \in AppInputs.google, espn \in AppInputs.espn,
          llm \in AppInputs.llm :
          RouteInjuriesTeam(team, google, espn, llm)
    \/ \E team1 \in AppInputs.team1, team2 \in AppInputs.team2, espn \in AppInputs.espn,
          google1 \in AppInputs.google, google2 \in AppInputs.google, llm \in AppInputs.llm :
          RouteInjuriesMatchup(team1, team2, espn, google1, google2, llm)
    \/ Sent

SpecApp == InitApp /\ [][NextApp]_vars

\* the request being answered came without one of the parameters its route
\* requires (none at all, or an empty one)
C19_Blank(arg) == ~arg.present \/ Len(arg.v) = 0

C19_LacksRequired ==
    /\ response # NoResponse
    /\ \/ call.fn = "/api/fanmatch" /\ C19_Blank(call.args[1])
       \/ call.fn = "/api/injuries/team" /\ C19_Blank(call.args[1])
       \/ call.fn = "/api/injuries/matchup"
          /\ (C19_Blank(call.args[1]) \/ C19_Blank(call.args[2]))

\* C19 as stated: a request that lacks a required parameter is answered
\* with 400 in every configuration, the injury module enabled or disabled,
\* and no collaborator is called.
C19_Always400 ==
    C19_LacksRequired => response.status = 400 /\ response.called = {}

\* C19: a request that lacks a required parameter never reaches a
\* collaborator and is never answered with 500: /api/fanmatch answers 400,
\* and so do /api/injuries/team and /api/injuries/matchup while the injury
\* module is enabled; while it is disabled those two answer 200 with the
\* stub of the disabled module, whatever the parameters.
C19_400UnlessDisabled ==
    C19_LacksRequired =>
        /\ response.called = {}
        /\ run = NoRun
        /\ response.status =
              IF call.fn # "/api/fanmatch" /\ ~app.injury_analyzer THEN 200 ELSE 400

C19_Witness ==
    /\ C19_LacksRequired
    /\ call.fn = "/api/injuries/matchup"
    /\ call.args[1] = Given(S_Duke)
    /\ call.args[2] = Missing
    /\ app.injury_analyzer
    /\ response.status = 400

\* the three injury routes
C20_InjuryRoutes == {"/api/injuries", "/api/injuries/team", "/api/injuries/matchup"}

\* an impact summary is the neutral one
C20_Neutral(d) ==
    /\ FieldIs(d, "adj_em_penalty", PInt(0))
    /\ FieldIs(d, "severity", PStr(<<"n", "o", "n", "e">>))

\* every list of injuries the body has is empty
C20_NoInjuries(body) ==
    \A key \in {"injuries", "team1_injuries", "team2_injuries"} :
        DictHas(body, key) => FieldIs(body, key, PList(<<>>))

\* the credential is unset or empty
C20_Absent(key) == ~key.present \/ Len(key.v) = 0

\* C20: a process started with the statistics credential but without the
\* injury credential runs, and answers every request to the three injury
\* routes with 200 and a neutral payload: empty injury lists, and for the
\* matchup zero adj_em_penalty, severity "none" and net_injury_edge 0;
\* a process started without the statistics credential never runs.
C20_DisabledIsNeutral ==
    /\ app.started # "no" =>
          (app.started = "running" <=> ~C20_Absent(app.env.KENPOM_API_KEY))
    /\ (app.started = "running" /\ C20_Absent(app.env.ANTHROPIC_API_KEY)
        /\ response # NoResponse /\ call.fn \in C20_InjuryRoutes) =>
          /\ response.status = 200
          /\ response.called = {}
          /\ C20_NoInjuries(response.body)
          /\ call.fn = "/api/injuries/matchup" =>
                /\ DictHas(response.body, "team1_injuries")
                /\ DictHas(response.body, "team2_injuries")
                /\ C20_Neutral(DictGet(response.body, "team1_impact", PDict(<<>>)).v)
                /\ C20_Neutral(DictGet(response.body, "team2_impact", PDict(<<>>)).v)
                /\ FieldIs(response.body, "net_injury_edge", PInt(0))
          /\ call.fn # "/api/injuries/matchup" => DictHas(response.body, "injuries")
    /\ app.started = "failed" => response = NoResponse /\ calls = 0

C20_Witness ==
    /\ app.started = "running"
    /\ app.env.ANTHROPIC_API_KEY = Missing
    /\ response.status = 200
    /\ call.fn = "/api/injuries/matchup"
    /\ call.args = <<Given(S_Duke), Given(S_Kansas)>>

\* an injury route answered 500
C21_InjuryRouteFailed ==
    /\ response # NoResponse
    /\ response.status = 500
    /\ call.fn \in {"/api/injuries", "/api/injuries/team", "/api/injuries/matchup"}

\* C21: an injury route that fails internally answers 500 with a body that
\* has an error message and an empty injuries array, on all three routes.
C21_UniformErrorShape ==
    C21_InjuryRouteFailed =>
        /\ DictHas(response.body, "error")
        /\ FieldIs(response.body, "injuries", PList(<<>>))

(***************************************************************************)
(* SpecParse: _parse_json_response applied to every reply of at most       *)
(* MaxReplyTokens tokens over a small alphabet: a fence, the language tag, *)
(* the brackets, a comma and a string.                                     *)
(***************************************************************************)
MaxReplyTokens == 5

ReplyAlphabet ==
    {Fence, Word(S_json), Sym("["), Sym("]"), Sym(","), StrLit(<<"a">>)}

RepliesIn == UNION {[1..n -> ReplyAlphabet] : n \in 0..MaxReplyTokens}

\* self._parse_json_response(text)
ParseJsonResponse(text) ==
    /\ call = NoCall
    /\ call' = [fn |-> "_parse_json_response", args |-> <<text>>]
    /\ ret' = Returned(parse_json_response(text))
    /\ UNCHANGED now
    /\ UNCHANGED cacheVars
    /\ UNCHANGED impactVars
    /\ UNCHANGED pipeVars
    /\ UNCHANGED appVars

NextParse ==
    \/ \E text \in RepliesIn : ParseJsonResponse(text)
    \/ Resume

SpecParse == InitStars /\ [][NextParse]_vars

\* the parsing policy: strip a leading fence and its language tag, take the
\* text from the first '[' to the last ']', parse it; a list or nothing
C22_Stripped(text) ==
    IF text # <<>> /\ text[1] = Fence
    THEN IF Len(text) > 1 /\ text[2] = Word(S_json)
         THEN SubSeq(text, 3, Len(text))
         ELSE Tail(text)
    ELSE text

C22_ListOrEmpty(result) ==
    IF result.ok /\ result.val.ty = "list" THEN result.val.v ELSE <<>>

C22_Parsed == call # NoCall /\ call.fn = "_parse_json_response"

\* C22: _parse_json_response returns, without raising, the list parsed from
\* the text between the first '[' and the last ']' of the reply with only a
\* leading fence and language tag stripped, and the empty list when that is
\* no JSON list; a fence that is not leading does not hide the array.
C22_LeadingFenceOnly ==
    C22_Parsed =>
        /\ ret.raised = ""
        /\ ret.value = C22_ListOrEmpty(json_loads(ArraySlice(C22_Stripped(call.args[1]))))

(***************************************************************************)
(* SpecNews: fetch_google_news applied to every feed of at most            *)
(* MaxFeedItems items, each recent, old, exactly 45 days old or undated,   *)
(* with max_results up to MaxResults, and to a feed call that fails.       *)
(***************************************************************************)
MaxFeedItems == 4
MaxResults == 3

\* the items a feed is made of, by name
FeedItems ==
    [recent |-> ItemRecent, old |-> ItemOld, cutoff |-> ItemAtCutoff, undated |-> ItemUndated]

FeedsIn == UNION {[1..n -> DOMAIN FeedItems] : n \in 0..MaxFeedItems}

\* soup.find_all('item') of such a feed
ItemsOf(names) == [i \in 1..Len(names) |-> FeedItems[names[i]]]

\* self.fetch_google_news(team_name, max_results), the feed answering
FetchGoogleNews(names, max_results) ==
    /\ call = NoCall
    /\ call' = [fn |-> "fetch_google_news", args |-> <<names, max_results>>]
    /\ ret' = fetch_google_news(FeedReplied(ItemsOf(names)), max_results, now)
    /\ UNCHANGED now
    /\ UNCHANGED cacheVars
    /\ UNCHANGED impactVars
    /\ UNCHANGED pipeVars
    /\ UNCHANGED appVars

\* self.fetch_google_news(team_name, max_results), the feed call failing
FetchGoogleNewsDown(exc, max_results) ==
    /\ call = NoCall
    /\ call' = [fn |-> "fetch_google_news", args |-> <<<<>>, max_results>>]
    /\ ret' = fetch_google_news(FeedFailed(exc), max_results, now)
    /\ UNCHANGED now
    /\ UNCHANGED cacheVars
    /\ UNCHANGED impactVars
    /\ UNCHANGED pipeVars
    /\ UNCHANGED appVars

NextNews ==
    \/ \E names \in FeedsIn, max_results \in 1..MaxResults : FetchGoogleNews(names, max_results)
    \/ \E exc \in {"Timeout", "HTTPError"}, max_results \in 1..MaxResults :
          FetchGoogleNewsDown(exc, max_results)
    \/ Resume

SpecNews == InitStars /\ [][NextNews]_vars

\* fetch_google_news has returned
C23_Fetched == call # NoCall /\ call.fn = "fetch_google_news" /\ ret.raised = ""

\* the item's date parses and is more than 45 days before the current time
C23_Old(item) == item.pubDate.parses /\ now - item.pubDate.t > 45 * 24 * 60

\* the returned list holds the feed's item
C23_Has(out, item) ==
    \E i \in 1..Len(out) :
        out[i].headline = item.title /\ out[i].published = item.pubDate.text

C23_AtMostMaxNoOldKeepUndated(items, max_results, out) ==
    /\ Len(out) <= max_results
    /\ \A k \in 1..Len(items) : C23_Old(items[k]) => ~C23_Has(out, items[k])
    /\ \A k \in 1..Len(items) :
          (k <= max_results /\ ~items[k].pubDate.parses) => C23_Has(out, items[k])

FlowInputs ==
    [espn |-> {"down", "kansas"},
     google |-> {"timeout", "recent"},
     llm |-> {ModelFailed("APIError")} \cup
             {ModelReplied(text) : text \in
                 {ReplyEmpty, ReplyGood, ReplyOtherTeams, ReplyStrayUnnamed, ReplyBothHurt}}]

NextFlow ==
    \/ \E force \in BOOLEAN, espn \in FlowInputs.espn, llm \in FlowInputs.llm :
          GetAllInjuries(force, espn, llm)
    \/ \E team \in TeamNames, force \in BOOLEAN, google \in FlowInputs.google,
          espn \in FlowInputs.espn, llm \in FlowInputs.llm :
          GetTeamInjuries(team, force, google, espn, llm)
    \/ \E m \in Matchups, espn \in FlowInputs.espn, google1 \in FlowInputs.google,
          google2 \in FlowInputs.google, llm \in FlowInputs.llm :
          GetMatchupInjuries(m[1], m[2], espn, google1, google2, llm)
    \/ Return
    \/ Wait

SpecFlow == InitPipeline /\ [][NextFlow]_vars

\* the run computed its lists from a reply of the language model
C24_Extracted ==
    /\ run.op \in {"team", "matchup"}
    /\ run.raised = ""
    /\ ~run.hit
    /\ run.llm.ok

\* what the flow returns for a team when the records of other teams are
\* dropped first and the override pass sees the remaining ones only
C24_FilterThenOverride(parsed, team) ==
    LET filtered == FilterTeam(parsed, team) IN
    IF filtered.raised # "" THEN <<>>
    ELSE LET overridden == apply_star_overrides(filtered.value) IN
         IF overridden.raised # "" THEN <<>> ELSE overridden.value

\* C24: in the team flow and in the matchup flow the records that do not
\* match a requested team are dropped before the override pass runs, so the
\* override pass never reads such a record: each returned list is what the
\* override pass makes of the requested team's records alone.
C24_FilterBeforeOverride ==
    C24_Extracted =>
        LET parsed == parse_json_response(run.llm.text) IN
        /\ run.op = "team" =>
              ListIn(run.result, "injuries") = C24_FilterThenOverride(parsed, run.teams[1])
        /\ run.op = "matchup" =>
              /\ ListIn(run.result, "team1_injuries")
                    = C24_FilterThenOverride(parsed, run.teams[1])
              /\ ListIn(run.result, "team2_injuries")
                    = C24_FilterThenOverride(parsed, run.teams[2])

\* the request missed the cache and returned a response
C25_Missed == run.op # "none" /\ run.raised = "" /\ ~run.hit

\* the cache identifier of the request
C25_Key ==
    CASE run.op = "all" -> CacheKeyAll
      [] run.op = "team" -> CacheKeyTeam(run.teams[1])
      [] run.op = "matchup" -> CacheKeyMatchup(run.teams[1], run.teams[2])

\* the language-model extraction was attempted, the result was written to
\* the cache under the request's identifier, and it is what was returned
C25_ExtractedAndWritten ==
    /\ run.llm # NotAsked
    /\ run.set_called
    /\ InjuryCache_get(disk[C25_Key], MatchupTTL, now) = [hit |-> TRUE, data |-> run.result]

\* get_all_injuries or get_team_injuries found no article to read
C25_NoArticles ==
    \/ run.op = "all" /\ SucceededEspn = <<>>
    \/ /\ run.op = "team"
       /\ EspnFiltered(SucceededEspn, Lower(run.teams[1])) \o SucceededGoogle(1, 15) = <<>>

\* C25 as stated: every request that misses the cache and returns a
\* response has attempted the extraction and written the cache before.
C25_AlwaysWritten == C25_Missed => C25_ExtractedAndWritten

\* C25: a request that misses the cache and returns a response has attempted
\* the language-model extraction and then written its result to the cache
\* under its identifier, except a get_all_injuries or get_team_injuries
\* whose fetch found no article: that one responds with an empty list
\* without asking the language model and without writing the cache.
C25_WrittenUnlessNoArticles ==
    C25_Missed =>
        IF C25_NoArticles
        THEN /\ run.llm = NotAsked
             /\ ~run.set_called
             /\ ListIn(run.result, "injuries") = <<>>
        ELSE C25_ExtractedAndWritten

C25_Witness ==
    /\ C25_Missed
    /\ run.op = "team"
    /\ ~C25_NoArticles
    /\ run.llm.ok
    /\ C25_ExtractedAndWritten
    /\ ListIn(run.result, "injuries") # <<>>

(***************************************************************************)
(* SpecRivals: get_matchup_injuries for a pair of teams one of whose names *)
(* begins with the other's, and for a pair of unrelated names.             *)
(***************************************************************************)
RivalMatchups == {<<S_Kansas, S_KansasState>>, <<S_Duke, S_Kansas>>}

RivalInputs ==
    [espn |-> {"down", "kansas"},
     google |-> {"timeout", "recent"},
     llm |-> {ModelReplied(text) : text \in
                 {ReplyEmpty, ReplyGood, ReplyOtherTeams, ReplyBothHurt}}]

InitRivals ==
    /\ now = 0
    /\ file = NoFile
    /\ writer = [w \in Threads |-> IdleWriter]
    /\ got = NoGet
    /\ sets = 0
    /\ stored = {}
    /\ lastDone = NoSet
    /\ dirty = FALSE
    /\ injuries = <<>>
    /\ impact = NotCalled
    /\ disk = [k \in {CacheKeyMatchup(m[1], m[2]) : m \in RivalMatchups} |-> NoFile]
    /\ run = NoRun
    /\ calls = 0
    /\ call = NoCall
    /\ ret = NoCall
    /\ app = NoApp
    /\ response = NoResponse

NextRivals ==
    \/ \E m \in RivalMatchups, espn \in RivalInputs.espn, google1 \in RivalInputs.google,
          google2 \in RivalInputs.google, llm \in RivalInputs.llm :
          GetMatchupInjuries(m[1], m[2], espn, google1, google2, llm)
    \/ Return
    \/ Wait

SpecRivals == InitRivals /\ [][NextRivals]_vars

\* the record is in the list
C26_In(inj, list) == \E i \in 1..Len(list) : list[i] = inj

\* the record's team matches the requested team
C26_Matches(inj, team) ==
    LET matched == TeamMatchOf(inj, team) IN matched.raised = "" /\ matched.value

\* C26: in every result of get_matchup_injuries for two different team
\* names no record is in both team1_injuries and team2_injuries, and every
\* record of either list matches one of the two teams.
C26_AtMostOneTeam ==
    (run.op = "matchup" /\ run.raised = "" /\ run.teams[1] # run.teams[2]) =>
        LET t1_injuries == ListIn(run.result, "team1_injuries")
            t2_injuries == ListIn(run.result, "team2_injuries")
        IN /\ \A i \in 1..Len(t1_injuries) : ~C26_In(t1_injuries[i], t2_injuries)
           /\ \A i \in 1..Len(t1_injuries) : C26_Matches(t1_injuries[i], run.teams[1])
           /\ \A i \in 1..Len(t2_injuries) : C26_Matches(t2_injuries[i], run.teams[2])

\* _apply_star_overrides has been called
C27_Applied == call # NoCall /\ call.fn = "_apply_star_overrides"

\* C27: _apply_star_overrides is total and length-preserving: for every
\* list of records, a record with a missing, empty or blank player
\* included, it returns without raising as many records as it was given,
\* the same players in the same order.
C27_TotalAndLengthPreserving ==
    C27_Applied =>
        /\ ret.raised = ""
        /\ Len(ret.value) = Len(call.args[1])
        /\ \A i \in 1..Len(call.args[1]) :
              SameField(call.args[1][i].v, ret.value[i].v, "player")

\* the cache identifier, the TTL and the result key of the operation r ran
C28_Key(r) ==
    CASE r.op = "all" -> CacheKeyAll
      [] r.op = "team" -> CacheKeyTeam(r.teams[1])
      [] r.op = "matchup" -> CacheKeyMatchup(r.teams[1], r.teams[2])

C28_TTL(r) == IF r.op = "matchup" THEN 60 ELSE 120

C28_ResultKey(r) == IF r.op = "matchup" THEN "team1_injuries" ELSE "injuries"

\* the entry of file f is younger than ttl minutes at time t
C28_Younger(f, ttl, t) == InjuryCache_get(f, ttl - 1, t).hit

\* the payload of the entry of file f
C28_Payload(f) == json_load(f.text).data

\* the run called no feed, did not ask the language model and wrote nothing
C28_NothingCalled(r) ==
    /\ r.espn = NoFeed
    /\ r.google = <<>>
    /\ r.llm = NotAsked
    /\ ~r.set_called

\* C28: a request made while the cache holds an entry for its query that
\* is younger than the TTL (120 minutes for get_all_injuries and
\* get_team_injuries, 60 for get_matchup_injuries) and has the result key
\* returns, without force_refresh, that payload, calls no feed and no
\* language model and leaves the cache as it is; with force_refresh it
\* fetches again and does not answer from the cache.
C28_FreshEntryIsServed ==
    [][(run = NoRun /\ run' # NoRun) =>
          /\ (/\ ~run'.force
              /\ C28_Younger(disk[C28_Key(run')], C28_TTL(run'), now)
              /\ DictHas(C28_Payload(disk[C28_Key(run')]), C28_ResultKey(run')))
             => /\ run'.hit
                /\ run'.raised = ""
                /\ run'.result = C28_Payload(disk[C28_Key(run')])
                /\ C28_NothingCalled(run')
                /\ disk' = disk
          /\ run'.force => (~run'.hit /\ run'.espn # NoFeed)]_vars

\* a matchup answered from the entry written by the request before it
C28_Witness ==
    /\ run.op = "matchup"
    /\ run.hit
    /\ calls = 2
    /\ ListIn(run.result, "team2_injuries") # <<>>
    /\ C28_NothingCalled(run)

\* the override pass gave the record another impact_score or is_starter
C29_Rescored(before, after) ==
    \/ ~SameField(before, after, "impact_score")
    \/ ~SameField(before, after, "is_starter")

\* the record's team is the team of the table entry its player resolves to
C29_OwnTeam(inj) ==
    LET star == get_star_player(DictGet(inj, "player", PStr(<<>>))) IN
    /\ star.raised = ""
    /\ star.found
    /\ DictHas(inj, "team")
    /\ C26_Matches(PDict(inj), star.star.team)

\* C29: the override pass changes the impact_score or is_starter of a
\* record only when the record's team is the team of the table entry the
\* player resolved to; a player is never rescored from the entry of another
\* team's player with the same last name and first initial.
C29_RescoredOnlyFromOwnTeam ==
    OverridesReturned =>
        \A i \in 1..Len(call.args[1]) :
            C29_Rescored(call.args[1][i].v, ret.value[i].v) => C29_OwnTeam(call.args[1][i].v)

\* the namesake of another team has been rescored
C29_NamesakeRescored ==
    /\ OverridesReturned
    /\ call.args[1] = <<RecordNamesake>>
    /\ FieldIs(ret.value[1].v, "impact_score", PInt(10))
    /\ FieldIs(ret.value[1].v, "is_starter", PBool(TRUE))

(***************************************************************************)
(* SpecScores: _compute_team_impact applied to lists of records whose      *)
(* impact_score is at the ends of the range 1..10 or outside it.           *)
(***************************************************************************)
ScoresIn == {0, 1, 10, 13}

ScoredRecordsIn ==
    { InjuryRecord(S_Al, st, b, n) :
        st \in {S_Out, S_Doubtful, S_Questionable, S_DayToDay, S_Probable, S_Indefinite},
        b \in BOOLEAN,
        n \in ScoresIn }
    \cup { <<KV("player", PStr(S_Al))>>,
           <<KV("status", PStr(S_Out)), KV("is_starter", PBool(TRUE))>> }

NextScores ==
    \/ \E r \in ScoredRecordsIn : Report(r)
    \/ Healthy

SpecScores == InitImpact /\ [][NextScores]_vars

\* every record has an impact_score between 1 and 10
C30_ScoresInRange ==
    \A i \in 1..Len(injuries) :
        /\ DictHas(injuries[i], "impact_score")
        /\ Field(injuries[i], "impact_score") \in 1..10

\* C30: in every summary _compute_team_impact returns,
\* 0 <= out_starters <= out_players <= number of records,
\* len(key_players_out) = out_starters, variance_boost >= 0 and
\* tempo_adj <= 0; and when every impact_score is in 1..10 one record alone
\* never gives severity "critical" and a non-empty list never gives "none".
C30_SummaryInvariants ==
    (impact # NotCalled /\ Computed) =>
        /\ 0 <= impact.value.out_starters
        /\ impact.value.out_starters <= impact.value.out_players
        /\ impact.value.out_players <= Len(injuries)
        /\ Len(impact.value.key_players_out) = impact.value.out_starters
        /\ impact.value.variance_boost >= 0
        /\ impact.value.tempo_adj <= 0
        /\ C30_ScoresInRange =>
              /\ Len(injuries) = 1 => impact.value.severity # "critical"
              /\ Len(injuries) >= 1 => impact.value.severity # "none"

\* one Probable bench player of impact 1: penalty 0.06, severity minor
C30_Witness ==
    /\ injuries = <<InjuryRecord(S_Al, S_Probable, FALSE, 1)>>
    /\ Computed
    /\ impact.value.adj_em_penalty = 6
    /\ impact.value.severity = "minor"
    /\ impact.value.out_players = 0

\* outside the range the two severity bounds do not hold
C30_OutOfRangeSeen ==
    /\ Len(injuries) = 1
    /\ Computed
    /\ ~C30_ScoresInRange
    /\ impact.value.severity \in {"critical", "none"}

====
